---- MODULE Spec2Model ----
(***************************************************************************)
(* Role-based task management API (Express + Mongoose): the authorization  *)
(* and visibility core.  The persistent store is modelled as two maps      *)
(* (users, tasks) plus the revoked-token collection; every handler is an   *)
(* action translated from its source.                                      *)
(*                                                                         *)
(* Values that the handlers compare with JavaScript's === are modelled     *)
(* with their run-time representation: a string is compared by value, an   *)
(* object (a bson ObjectId, a hydrated Mongoose document) by reference.    *)
(* A document returned by Model.findById carries ObjectId instances of its *)
(* own, so the field `inst` names the instance that holds the value.       *)
(***************************************************************************)
EXTENDS Integers, Sequences, FiniteSets, TLC

VARIABLES users, tasks, blacklist, issued, loggedOut, now, reqs, resp, call, cache

vars == <<users, tasks, blacklist, issued, loggedOut, now, reqs, resp, call, cache>>

(***************************************************************************)
(* Bounds of the model.                                                    *)
(***************************************************************************)
MaxUsers == 4
MaxTasks == 2
MaxTime == 3

UserIds == 1..MaxUsers
TaskIds == 1..MaxTasks

Undefined == "undefined"
Teams == {"Engineering", "Sales"}
TeamValues == Teams \cup {Undefined}
Roles == {"admin", "manager", "user"}
Statuses == {"todo", "in-progress", "completed", "overdue"}
Priorities == {"low", "medium", "high"}

(***************************************************************************)
(* JavaScript values.                                                      *)
(***************************************************************************)
Str(v) == [kind |-> "string", v |-> v, inst |-> "-"]
Oid(v, inst) == [kind |-> "ObjectId", v |-> v, inst |-> inst]
PopulatedDoc(v, inst) == [kind |-> "Document", v |-> v, inst |-> inst]
Null == [kind |-> "null", v |-> 0, inst |-> "-"]

\* a === b: primitives by value, objects by reference
StrictEq(a, b) == a = b

\* ObjectId.prototype.toString(): the hex string of the id
OidToString(a) == Str(a.v)

\* !!x of an optional string: undefined and "" are falsy
Truthy(x) == x # Undefined /\ x # ""

(***************************************************************************)
(* utils/permissions.ts                                                    *)
(***************************************************************************)
RoleLevelUSER == 1
RoleLevelMANAGER == 2
RoleLevelADMIN == 3

getRoleLevel(role) ==
    CASE role = "admin" -> RoleLevelADMIN
      [] role = "manager" -> RoleLevelMANAGER
      [] OTHER -> RoleLevelUSER

hasHigherOrEqualRole(userRole, requiredRole) ==
    getRoleLevel(userRole) >= getRoleLevel(requiredRole)

canAccessTaskNoTeamCheck(user, task) ==
    IF user.role = "admin" THEN TRUE
    ELSE IF user.role = "manager" /\ task.team = user.team THEN TRUE
    ELSE IF StrictEq(task.createdBy, user._id) \/ StrictEq(task.assignedTo, user._id) THEN TRUE
    ELSE FALSE

canAccessTask(user, task) ==
    IF user.role = "admin" THEN TRUE
    ELSE IF user.role = "manager" /\ Truthy(user.team) /\ task.team = user.team THEN TRUE
    ELSE IF StrictEq(task.createdBy, user._id) \/ StrictEq(task.assignedTo, user._id) THEN TRUE
    ELSE FALSE

\* a capability check that lets every role assign
canAssignTaskAnyone(user) == user.role \in Roles

canAssignTask(user) == user.role = "admin" \/ user.role = "manager"

canManageUser(user, targetUser) ==
    IF user.role = "admin" THEN TRUE
    ELSE IF /\ user.role = "manager"
            /\ Truthy(user.team)
            /\ targetUser.team = user.team
            /\ targetUser.role = "user" THEN TRUE
    ELSE FALSE

validRoles == {"admin", "manager", "user"}

canAssignRoleAnyone(user, targetRole) == targetRole \in validRoles

canAssignRole(user, targetRole) ==
    IF user.role # "admin" THEN FALSE
    ELSE IF targetRole \notin validRoles THEN FALSE
    ELSE TRUE

isSameTeam(user1, user2) ==
    IF ~Truthy(user1.team) \/ ~Truthy(user2.team) THEN FALSE
    ELSE user1.team = user2.team

(***************************************************************************)
(* The store: models/User.model.ts, models/Task.model.ts.  A slot that     *)
(* holds no document is NoUser / NoTask.  createdAt of a task is its id:   *)
(* ids are handed out in creation order.  A text (title, description) is   *)
(* the set of its lower-cased words, {} when the field is absent; a date   *)
(* is a point of the model clock, 0 when the field is absent.              *)
(***************************************************************************)
NoUser == [exists |-> FALSE, username |-> "", email |-> "", role |-> "user", team |-> Undefined]

UserRec(username, role, team) ==
    [exists |-> TRUE, username |-> username, email |-> username \o "@example.com",
     role |-> role, team |-> team]

NoTask ==
    [exists |-> FALSE, title |-> {}, description |-> {}, dueDate |-> 0,
     priority |-> "medium", status |-> "todo", createdBy |-> 0, assignedTo |-> 0,
     team |-> Undefined]

\* User.findById(id): the hydrated document; `inst` names the variable holding it
UserDoc(id, inst) ==
    [_id |-> Oid(id, inst), role |-> users[id].role, team |-> users[id].team]

\* User.findById(id): is there a document with this id
UserExists(u) == u \in UserIds /\ users[u].exists

\* a reference field of a hydrated task: an ObjectId of the task document, or after
\* populate() the referenced user document (null when that user is gone)
RefField(id, field, populated) ==
    IF id = 0 THEN Null
    ELSE IF ~populated THEN Oid(id, field)
    ELSE IF id \in UserIds /\ users[id].exists THEN PopulatedDoc(id, field)
    ELSE Null

\* Task.findById(id) [.populate('createdBy assignedTo', ...)]
TaskDoc(t, populated) ==
    [_id |-> Oid(t, "task"),
     createdBy |-> RefField(tasks[t].createdBy, "task.createdBy", populated),
     assignedTo |-> RefField(tasks[t].assignedTo, "task.assignedTo", populated),
     team |-> tasks[t].team,
     status |-> tasks[t].status]

(***************************************************************************)
(* utils/tokenManager.ts and models/TokenBlacklist.model.ts.  A token is   *)
(* its decoded payload together with the key that signed it; two tokens    *)
(* signed for the same user in the same clock tick are the same string.    *)
(* The Authorization header is its scheme and what follows "Bearer ".      *)
(***************************************************************************)
TokenLife == 2
MaxTokens == 2

NoToken == [userId |-> 0, role |-> "user", iat |-> 0, exp |-> 0, sig |-> "none"]

NoPayload == [userId |-> 0, role |-> ""]

\* jwt.sign(payload, config.jwt.secret, {expiresIn: config.jwt.expiresIn})
generateToken(userId, role) ==
    [userId |-> userId, role |-> role, iat |-> now, exp |-> now + TokenLife,
     sig |-> "secret"]

\* a well-formed token signed with another key, not yet expired
ForgedToken(userId, role) ==
    [userId |-> userId, role |-> role, iat |-> 0, exp |-> MaxTime + TokenLife,
     sig |-> "other"]

\* jwt.verify: the payload, or null on a bad signature or when exp has been reached
verifyToken(token) ==
    IF token.sig = "secret" /\ now < token.exp
    THEN [userId |-> token.userId, role |-> token.role]
    ELSE NoPayload

NoHeader == [scheme |-> "", token |-> NoToken]

Bearer(token) == [scheme |-> "Bearer", token |-> token]

\* null (NoToken) unless the header starts with "Bearer "
extractTokenFromHeader(authHeader) ==
    IF authHeader.scheme # "Bearer" THEN NoToken ELSE authHeader.token

isTokenBlacklistedFailOpen(token) == FALSE

\* TokenBlacklist.findOne({token})
isTokenBlacklisted(token) == \E e \in blacklist : e.token = token

\* the TTL index {expires: 0} on expiresAt: the document may go once expiresAt is reached
TtlExpired(e) == now >= e.expiresAt

(***************************************************************************)
(* services/cacheService.ts over config/redis.ts.  cache.client is what    *)
(* getRedisClient() returns: "ready" (a connected client), "absent" (null: *)
(* the connection failed at start-up) or "failing" (a client whose         *)
(* commands reject).  cache.entries is what the server holds: each key     *)
(* with its value and the time its TTL ends.  A key is its namespace, its  *)
(* type and its identifier; a value is what JSON.parse gives back of what  *)
(* JSON.stringify wrote (numbers and strings: the same record).            *)
(***************************************************************************)
AnalyticsTtl == 2

NoCache == [client |-> "ready", entries |-> {}]

\* the outcome of a cache read: null, a value, or a rejected command
Miss == [hit |-> FALSE, threw |-> FALSE, data |-> <<>>]

Hit(data) == [hit |-> TRUE, threw |-> FALSE, data |-> data]

Threw == [hit |-> FALSE, threw |-> TRUE, data |-> <<>>]

getAnalyticsKey(type, identifier) == [ns |-> "analytics", type |-> type, id |-> identifier]

\* the keys the server still holds: a key is gone once its TTL has run out
Live(c) == {e \in c.entries : now < e.exp}

\* redis.get(key) on a client
redisGet(key) ==
    IF cache.client = "failing" THEN Threw
    ELSE IF \E e \in Live(cache) : e.key = key
    THEN Hit((CHOOSE e \in Live(cache) : e.key = key).data)
    ELSE Miss

\* get without its try/catch
getUncaught(key) == IF cache.client = "absent" THEN Miss ELSE redisGet(key)

\* cacheService.get: null without a client and on any error
get(key) ==
    IF cache.client = "absent" THEN Miss
    ELSE IF redisGet(key).threw THEN Miss
    ELSE redisGet(key)

\* cacheService.set: redis.setex(key, ttl, value); the cache after it
set(key, value, ttl) ==
    IF cache.client # "ready" THEN cache
    ELSE [cache EXCEPT !.entries = {e \in Live(cache) : e.key # key}
                                   \cup {[key |-> key, data |-> value, exp |-> now + ttl]}]

\* cacheService.delPattern(ns:*) on the cache c; the cache after it
delPattern(c, ns) ==
    IF c.client # "ready" THEN c
    ELSE [c EXCEPT !.entries = {e \in Live(c) : e.key.ns # ns}]

invalidateTaskCaches == delPattern(delPattern(cache, "tasks"), "analytics")

(***************************************************************************)
(* Bulk reads: controllers/task.controller.ts getTasks, searchTasks and    *)
(* controllers/analytics.controller.ts getOverview, getTasksByStatus.      *)
(* A Mongo filter is a record of its top-level keys; assigning a key that  *)
(* is already set replaces it, as in `query.team = team`.                  *)
(***************************************************************************)
NoSet == [on |-> FALSE, in |-> {}]

EmptyQuery ==
    [orUser |-> Null, team |-> Undefined, status |-> NoSet, priority |-> NoSet,
     assignedTo |-> Null, createdBy |-> Null, text |-> "", dueLte |-> 0, dueGte |-> 0]

\* does document t of the task collection satisfy the filter
Matches(t, q) ==
    /\ tasks[t].exists
    /\ q.orUser # Null =>
          (tasks[t].createdBy = q.orUser.v \/ tasks[t].assignedTo = q.orUser.v)
    /\ q.team # Undefined => tasks[t].team = q.team
    /\ q.status.on => tasks[t].status \in q.status.in
    /\ q.priority.on => tasks[t].priority \in q.priority.in
    /\ q.assignedTo # Null => tasks[t].assignedTo = q.assignedTo.v
    /\ q.createdBy # Null => tasks[t].createdBy = q.createdBy.v
    /\ q.text # "" => (q.text \in tasks[t].title \/ q.text \in tasks[t].description)
    /\ (q.dueLte # 0 \/ q.dueGte # 0) =>
          /\ tasks[t].dueDate # 0
          /\ q.dueLte # 0 => tasks[t].dueDate <= q.dueLte
          /\ q.dueGte # 0 => tasks[t].dueDate >= q.dueGte

Find(q) == {t \in TaskIds : Matches(t, q)}

countDocuments(q) == Cardinality(Find(q))

\* the rank of a string among the values of its field, in string order
StringRank(field, v) ==
    CASE field = "priority" ->
           (CASE v = "high" -> 1 [] v = "low" -> 2 [] OTHER -> 3)
      [] OTHER ->
           (CASE v = "completed" -> 1 [] v = "in-progress" -> 2
              [] v = "overdue" -> 3 [] OTHER -> 4)

SortKey(t, sortBy) ==
    CASE sortBy = "createdAt" -> t
      [] sortBy = "dueDate" -> tasks[t].dueDate
      [] sortBy = "priority" -> StringRank("priority", tasks[t].priority)
      [] sortBy = "status" -> StringRank("status", tasks[t].status)
      [] OTHER -> 0

\* x sorts before y under {sortBy: dir}; equal keys keep insertion order
Before(x, y, sortBy, dir) ==
    IF SortKey(x, sortBy) # SortKey(y, sortBy)
    THEN IF dir = 1 THEN SortKey(x, sortBy) < SortKey(y, sortBy)
         ELSE SortKey(x, sortBy) > SortKey(y, sortBy)
    ELSE x < y

RECURSIVE Sorted(_, _, _)
Sorted(S, sortBy, dir) ==
    IF S = {} THEN <<>>
    ELSE LET first == CHOOSE x \in S : \A y \in S \ {x} : Before(x, y, sortBy, dir)
         IN <<first>> \o Sorted(S \ {first}, sortBy, dir)

Min(a, b) == IF a < b THEN a ELSE b

\* the number of documents a cursor with .limit(limit) returns at most: the
\* driver sends a negative limit as its absolute value in a single batch
CursorLimit(limit) == IF limit < 0 THEN -limit ELSE limit

\* cursor.skip(skip).limit(limit) over the sorted result
SkipLimit(sorted, skip, limit) ==
    SubSeq(sorted, skip + 1, Min(skip + CursorLimit(limit), Len(sorted)))

Range(f) == {f[i] : i \in DOMAIN f}

\* parseInt(raw) || dflt: a query parameter is <<>> when absent or not a number
ParseIntOr(raw, dflt) ==
    IF raw = <<>> THEN dflt
    ELSE IF raw[1] = 0 THEN dflt
    ELSE raw[1]

DefaultPage == 1
DefaultLimit == 10
MaxLimit == 100

\* Math.min(parseInt(req.query.limit) || 10, 100)
PageSize(raw) == Min(ParseIntOr(raw, DefaultLimit), MaxLimit)

CeilDiv(a, b) == (a + b - 1) \div b

\* every row a client collects by reading pages 1..ceil(total/limit)
AllPages(sorted, limit) ==
    UNION { Range(SkipLimit(sorted, (pg - 1) * limit, limit)) :
              pg \in 1..CeilDiv(Len(sorted), limit) }

NoParams ==
    [page |-> <<>>, limit |-> <<>>, status |-> <<>>, priority |-> <<>>,
     sortBy |-> "createdAt", order |-> "desc", q |-> "", assignee |-> 0,
     creator |-> 0, team |-> "", dueBefore |-> 0, dueAfter |-> 0]

\* what of the request a response is recorded with
ReqInfo(prm) ==
    [team |-> prm.team, sortBy |-> prm.sortBy, order |-> prm.order,
     filtered |-> \/ prm.status # <<>> \/ prm.priority # <<>> \/ prm.q # ""
                  \/ prm.assignee # 0 \/ prm.creator # 0 \/ prm.team # ""
                  \/ prm.dueBefore # 0 \/ prm.dueAfter # 0]

NoResp ==
    [op |-> "none", user |-> 0, code |-> 0, err |-> "", rows |-> <<>>, total |-> 0,
     all |-> {}, counts |-> <<>>, req |-> ReqInfo(NoParams), token |-> NoToken,
     task |-> 0, target |-> 0, msg |-> "", cached |-> FALSE, sort |-> <<>>]

ListResp(op, p, prm, q, sortBy, dir) ==
    LET page == ParseIntOr(prm.page, DefaultPage)
        limit == PageSize(prm.limit)
        skip == (page - 1) * limit
        sorted == Sorted(Find(q), sortBy, dir)
    IN [NoResp EXCEPT !.op = op, !.user = p, !.code = 200,
                      !.rows = SkipLimit(sorted, skip, limit),
                      !.total = countDocuments(q),
                      !.all = AllPages(sorted, limit),
                      !.req = ReqInfo(prm),
                      !.sort = <<sortBy, dir>>]

\* getTasks: role scope, then status and priority
GetTasksQueryNoScope(user, prm) ==
    LET q1 == IF prm.status # <<>>
              THEN [EmptyQuery EXCEPT !.status =
                      [on |-> TRUE, in |-> IF Len(prm.status) = 1 THEN {prm.status[1]} ELSE {}]]
              ELSE EmptyQuery
    IN IF prm.priority # <<>>
       THEN [q1 EXCEPT !.priority =
               [on |-> TRUE, in |-> IF Len(prm.priority) = 1 THEN {prm.priority[1]} ELSE {}]]
       ELSE q1

GetTasksQuery(user, prm) ==
    LET q0 == IF user.role = "user"
              THEN [EmptyQuery EXCEPT !.orUser = user._id]
              ELSE IF user.role = "manager" /\ Truthy(user.team)
              THEN [EmptyQuery EXCEPT !.team = user.team]
              ELSE EmptyQuery
        q1 == IF prm.status # <<>>
              THEN [q0 EXCEPT !.status =
                      [on |-> TRUE, in |-> IF Len(prm.status) = 1 THEN {prm.status[1]} ELSE {}]]
              ELSE q0
    IN IF prm.priority # <<>>
       THEN [q1 EXCEPT !.priority =
               [on |-> TRUE, in |-> IF Len(prm.priority) = 1 THEN {prm.priority[1]} ELSE {}]]
       ELSE q1

\* searchTasks: role scope, then q, status, priority, assignee, creator, team, due range
SearchTasksQuery(user, prm) ==
    LET q0 == IF user.role = "user"
              THEN [EmptyQuery EXCEPT !.orUser = user._id]
              ELSE IF user.role = "manager" /\ Truthy(user.team)
              THEN [EmptyQuery EXCEPT !.team = user.team]
              ELSE EmptyQuery
        q1 == IF prm.q # "" THEN [q0 EXCEPT !.text = prm.q] ELSE q0
        q2 == IF prm.status # <<>>
              THEN [q1 EXCEPT !.status = [on |-> TRUE, in |-> Range(prm.status)]]
              ELSE q1
        q3 == IF prm.priority # <<>>
              THEN [q2 EXCEPT !.priority = [on |-> TRUE, in |-> Range(prm.priority)]]
              ELSE q2
        q4 == IF prm.assignee # 0 THEN [q3 EXCEPT !.assignedTo = Str(prm.assignee)] ELSE q3
        q5 == IF prm.creator # 0 THEN [q4 EXCEPT !.createdBy = Str(prm.creator)] ELSE q4
        q6 == IF prm.team # "" THEN [q5 EXCEPT !.team = prm.team] ELSE q5
    IN IF prm.dueBefore # 0 \/ prm.dueAfter # 0
       THEN [q6 EXCEPT !.dueLte = prm.dueBefore, !.dueGte = prm.dueAfter]
       ELSE q6

\* getOverview, getTasksByStatus: role scope only
OverviewQuery(user) ==
    IF user.role = "user"
    THEN [EmptyQuery EXCEPT !.orUser = user._id]
    ELSE IF user.role = "manager" /\ Truthy(user.team)
    THEN [EmptyQuery EXCEPT !.team = user.team]
    ELSE EmptyQuery

ByStatusQuery(user) ==
    IF user.role = "user"
    THEN [EmptyQuery EXCEPT !.orUser = user._id]
    ELSE IF user.role = "manager" /\ Truthy(user.team)
    THEN [EmptyQuery EXCEPT !.team = user.team]
    ELSE EmptyQuery

WithStatus(q, S) == [q EXCEPT !.status = [on |-> TRUE, in |-> S]]

(***************************************************************************)
(* Calls of the pure permission helpers.  The arguments are drawn from the *)
(* plain objects of tests/unit/utils/permissions.test.ts (string ids) and  *)
(* from the documents the handlers pass (req.user and a task loaded by     *)
(* Task.findById, with or without populate).                               *)
(***************************************************************************)
Representations == {"plain", "hydrated", "populated"}

ArgUser(rep, id, role, team) ==
    [_id |-> IF rep = "plain" THEN Str(id) ELSE Oid(id, "req.user"),
     role |-> role, team |-> team]

ArgRef(rep, id, field) ==
    IF id = 0 THEN Null
    ELSE IF rep = "plain" THEN Str(id)
    ELSE IF rep = "hydrated" THEN Oid(id, field)
    ELSE PopulatedDoc(id, field)

ArgTask(rep, c, a, team) ==
    [_id |-> IF rep = "plain" THEN Str(1) ELSE Oid(1, "task"),
     createdBy |-> ArgRef(rep, c, "task.createdBy"),
     assignedTo |-> ArgRef(rep, a, "task.assignedTo"),
     team |-> team,
     status |-> "todo"]

RoleInputs == Roles \cup {"superuser"}

NoCall ==
    [fn |-> "none", rep |-> "plain", user |-> ArgUser("plain", 1, "user", Undefined),
     task |-> ArgTask("plain", 1, 0, Undefined), role |-> "user",
     done |-> FALSE, out |-> FALSE]

CallInputs ==
    { [NoCall EXCEPT !.fn = "canAccessTask", !.rep = rep,
                     !.user = ArgUser(rep, u, r, ut),
                     !.task = ArgTask(rep, c, a, tt)] :
        rep \in Representations, u \in UserIds, r \in Roles, ut \in TeamValues,
        c \in UserIds, a \in UserIds \cup {0}, tt \in TeamValues }
    \cup
    { [NoCall EXCEPT !.fn = "canAssignRole", !.rep = rep,
                     !.user = ArgUser(rep, u, r, ut), !.role = tr] :
        rep \in {"plain", "hydrated"}, u \in UserIds, r \in Roles, ut \in TeamValues,
        tr \in RoleInputs }

IdleStore ==
    /\ users = [u \in UserIds |-> NoUser]
    /\ tasks = [t \in TaskIds |-> NoTask]
    /\ blacklist = {}
    /\ issued = {}
    /\ loggedOut = {}
    /\ now = 0
    /\ reqs = <<>>
    /\ resp = NoResp
    /\ cache = NoCache

InitPerm ==
    /\ IdleStore
    /\ call \in CallInputs

CallCanAccessTask ==
    /\ call.fn = "canAccessTask"
    /\ ~call.done
    /\ call' = [call EXCEPT !.done = TRUE, !.out = canAccessTask(call.user, call.task)]
    /\ UNCHANGED <<users, tasks, blacklist, issued, loggedOut, now, reqs, resp, cache>>

CallCanAssignRole ==
    /\ call.fn = "canAssignRole"
    /\ ~call.done
    /\ call' = [call EXCEPT !.done = TRUE, !.out = canAssignRole(call.user, call.role)]
    /\ UNCHANGED <<users, tasks, blacklist, issued, loggedOut, now, reqs, resp, cache>>

NextPerm == CallCanAccessTask \/ CallCanAssignRole

SpecPerm == InitPerm /\ [][NextPerm]_vars

\* middleware/rbac.middleware.ts requireRole(...roles)
requireRole(user, roles) == user.role \in roles

requireManager(user) == requireRole(user, {"admin", "manager"})

requireAdmin(user) == requireRole(user, {"admin"})

\* an error response of a handler or of a middleware before it
TaskError(op, p, t, code, err, msg) ==
    [NoResp EXCEPT !.op = op, !.user = p, !.task = t, !.code = code, !.err = err,
                   !.msg = msg]

RoleDenied(op, p, t, roles) ==
    TaskError(op, p, t, 403, "FORBIDDEN", "Access denied. Required role(s): " \o roles)

(***************************************************************************)
(* The bulk reads as actions.  p is the user that authenticate attached to *)
(* the request (req.user).  A read leaves the store as it is, so its       *)
(* response does not depend on the reads before it: a behaviour serves one *)
(* bulk read on its store.                                                 *)
(***************************************************************************)
getTasks(p, prm) ==
    /\ resp.op = "none"
    /\ users[p].exists
    /\ LET user == UserDoc(p, "req.user")
           dir == IF prm.order = "asc" THEN 1 ELSE -1
       IN resp' = ListResp("getTasks", p, prm, GetTasksQuery(user, prm), prm.sortBy, dir)
    /\ UNCHANGED <<users, tasks, blacklist, issued, loggedOut, now, reqs, call, cache>>

searchTasks(p, prm) ==
    /\ resp.op = "none"
    /\ users[p].exists
    /\ LET user == UserDoc(p, "req.user")
       IN resp' = ListResp("searchTasks", p, prm, SearchTasksQuery(user, prm), "createdAt", -1)
    /\ UNCHANGED <<users, tasks, blacklist, issued, loggedOut, now, reqs, call, cache>>

\* the aggregate getOverview computes on a cache miss
OverviewCounts(user) ==
    LET query == OverviewQuery(user)
    IN [totalTasks |-> countDocuments(query),
        completed |-> countDocuments(WithStatus(query, {"completed"})),
        pending |-> countDocuments(WithStatus(query, {"todo", "in-progress"})),
        overdue |-> countDocuments(WithStatus(query, {"overdue"})),
        scope |-> Find(query)]

\* the object getOverview caches and sends (completionRate is derived from it)
Result(counts) ==
    [totalTasks |-> counts.totalTasks, completed |-> counts.completed,
     pending |-> counts.pending, overdue |-> counts.overdue]

\* the body of getOverview: the cached entry of this user and role if there
\* is one, else the aggregate, which it caches
OverviewRequest(p) ==
    LET user == UserDoc(p, "req.user")
        cacheKey == getAnalyticsKey("overview", <<OidToString(user._id).v, user.role>>)
        cachedData == get(cacheKey)
        counts == OverviewCounts(user)
        served == [NoResp EXCEPT !.op = "getOverview", !.user = p, !.code = 200]
    IN /\ users[p].exists
       /\ IF cachedData.threw
          THEN /\ resp' = [served EXCEPT !.code = 500, !.err = "ANALYTICS_ERROR"]
               /\ cache' = cache
          ELSE IF cachedData.hit
          THEN /\ resp' = [served EXCEPT !.counts = cachedData.data, !.cached = TRUE]
               /\ cache' = cache
          ELSE /\ resp' = [served EXCEPT !.counts = counts]
               /\ cache' = set(cacheKey, Result(counts), AnalyticsTtl)
       /\ UNCHANGED <<users, tasks, blacklist, issued, loggedOut, now, reqs, call>>

getOverview(p) == resp.op = "none" /\ OverviewRequest(p)

ByStatusCounts(user) ==
    LET baseQuery == ByStatusQuery(user)
    IN [todo |-> countDocuments(WithStatus(baseQuery, {"todo"})),
        inProgress |-> countDocuments(WithStatus(baseQuery, {"in-progress"})),
        completed |-> countDocuments(WithStatus(baseQuery, {"completed"})),
        overdue |-> countDocuments(WithStatus(baseQuery, {"overdue"})),
        scope |-> Find(baseQuery)]

getTasksByStatus(p) ==
    /\ resp.op = "none"
    /\ users[p].exists
    /\ resp' = [NoResp EXCEPT !.op = "getTasksByStatus", !.user = p, !.code = 200,
                              !.counts = ByStatusCounts(UserDoc(p, "req.user"))]
    /\ UNCHANGED <<users, tasks, blacklist, issued, loggedOut, now, reqs, call, cache>>

\* getTeamStats: the two access guards; the message of the 403, "" when the
\* request passes
TeamStatsDeniedUsersOnly(user, teamName) ==
    IF user.role = "user" THEN "Insufficient permissions" ELSE ""

TeamStatsDenied(user, teamName) ==
    IF user.role = "manager" /\ user.team # teamName
    THEN "You can only view your own team statistics"
    ELSE IF user.role = "user" THEN "Insufficient permissions"
    ELSE ""

TeamCounts(teamName) ==
    LET query == [EmptyQuery EXCEPT !.team = teamName]
        teamMembers == {u \in UserIds : users[u].exists /\ users[u].team = teamName}
        assigned(u) == [EmptyQuery EXCEPT !.assignedTo = Oid(u, "member")]
    IN [totalTasks |-> countDocuments(query),
        completed |-> countDocuments(WithStatus(query, {"completed"})),
        pending |-> countDocuments(WithStatus(query, {"todo", "in-progress"})),
        overdue |-> countDocuments(WithStatus(query, {"overdue"})),
        members |-> {[userId |-> u, tasksAssigned |-> countDocuments(assigned(u)),
                      tasksCompleted |->
                          countDocuments(WithStatus(assigned(u), {"completed"}))] :
                        u \in teamMembers}]

getTeamStats(p, teamName) ==
    LET user == UserDoc(p, "req.user")
        denied == TeamStatsDenied(user, teamName)
        served == [NoResp EXCEPT !.op = "getTeamStats", !.user = p,
                                 !.req = [ReqInfo(NoParams) EXCEPT !.team = teamName]]
    IN /\ resp.op = "none"
       /\ users[p].exists
       /\ resp' = IF denied # ""
                  THEN [served EXCEPT !.code = 403, !.err = "FORBIDDEN", !.msg = denied]
                  ELSE [served EXCEPT !.code = 200, !.counts = TeamCounts(teamName)]
       /\ UNCHANGED <<users, tasks, blacklist, issued, loggedOut, now, reqs, call, cache>>

\* getUserStats: the counts of the tasks assigned to and created by userId (the
\* average completion time is computed from timestamps the model does not keep)
UserCounts(userId) ==
    LET assigned == [EmptyQuery EXCEPT !.assignedTo = Str(userId)]
    IN [totalAssigned |-> countDocuments(assigned),
        completed |-> countDocuments(WithStatus(assigned, {"completed"})),
        pending |-> countDocuments(WithStatus(assigned, {"todo", "in-progress"})),
        overdue |-> countDocuments(WithStatus(assigned, {"overdue"})),
        totalCreated |-> countDocuments([EmptyQuery EXCEPT !.createdBy = Str(userId)])]

getUserStats(p, userId) ==
    LET user == UserDoc(p, "req.user")
        targetUser == UserDoc(userId, "targetUser")
        canAccess == \/ StrictEq(user._id, Str(userId))
                     \/ user.role = "admin"
                     \/ (user.role = "manager" /\ user.team = targetUser.team)
        served == [NoResp EXCEPT !.op = "getUserStats", !.user = p, !.target = userId]
    IN /\ resp.op = "none"
       /\ users[p].exists
       /\ resp' = IF ~UserExists(userId)
                  THEN [served EXCEPT !.code = 404, !.err = "NOT_FOUND",
                                      !.msg = "User not found"]
                  ELSE IF ~canAccess
                  THEN [served EXCEPT !.code = 403, !.err = "FORBIDDEN",
                                      !.msg = "Insufficient permissions"]
                  ELSE [served EXCEPT !.code = 200, !.counts = UserCounts(userId)]
       /\ UNCHANGED <<users, tasks, blacklist, issued, loggedOut, now, reqs, call, cache>>

\* listUsers behind authenticate and requireManager(): the filter on the user
\* collection, newest first (ids are handed out in creation order)
ListUsersQuery(user, prm) ==
    LET scoped == IF user.role = "manager" /\ Truthy(user.team) THEN user.team ELSE ""
    IN [role |-> prm.role,
        team |-> IF prm.team # "" /\ user.role = "admin" THEN prm.team ELSE scoped]

FindUsers(q) ==
    {u \in UserIds : /\ users[u].exists
                     /\ q.role # "" => users[u].role = q.role
                     /\ q.team # "" => users[u].team = q.team}

RECURSIVE NewestFirst(_)
NewestFirst(S) ==
    IF S = {} THEN <<>>
    ELSE LET u == CHOOSE x \in S : \A y \in S : y <= x
         IN <<u>> \o NewestFirst(S \ {u})

listUsers(p, prm) ==
    LET user == UserDoc(p, "req.user")
        page == ParseIntOr(prm.page, DefaultPage)
        limit == ParseIntOr(prm.limit, DefaultLimit)
        skip == (page - 1) * limit
        sorted == NewestFirst(FindUsers(ListUsersQuery(user, prm)))
    IN /\ resp.op = "none"
       /\ users[p].exists
       /\ resp' = IF ~requireManager(user)
                  THEN RoleDenied("listUsers", p, 0, "admin, manager")
                  ELSE [NoResp EXCEPT !.op = "listUsers", !.user = p, !.code = 200,
                                      !.rows = SkipLimit(sorted, skip, limit),
                                      !.total = Len(sorted),
                                      !.all = AllPages(sorted, limit)]
       /\ UNCHANGED <<users, tasks, blacklist, issued, loggedOut, now, reqs, call, cache>>

(***************************************************************************)
(* The population the bulk reads are checked on: the users of              *)
(* tests/setup/testDb.ts seedTestUsers with a manager that has no team,    *)
(* and every assignment of creators and assignees to the tasks.  A task    *)
(* carries the team of its creator (createTask).                           *)
(***************************************************************************)
SeedUser(u) ==
    CASE u = 1 -> UserRec("admin", "admin", "Engineering")
      [] u = 2 -> UserRec("manager", "manager", "Engineering")
      [] u = 3 -> UserRec("user2", "user", "Sales")
      [] u = 4 -> UserRec("manager2", "manager", Undefined)
      [] OTHER -> UserRec("user", "user", "Engineering")

SeedUsers == [u \in UserIds |-> SeedUser(u)]

\* title, description, due date, priority and status of the t-th task
SeedDetail(t) ==
    CASE t % 3 = 1 -> [title |-> {"fix", "login"}, description |-> {}, dueDate |-> 0,
                       priority |-> "medium", status |-> "todo"]
      [] t % 3 = 2 -> [title |-> {"write", "docs"}, description |-> {"fix", "typos"},
                       dueDate |-> 1, priority |-> "high", status |-> "completed"]
      [] OTHER -> [title |-> {"deploy"}, description |-> {"release"}, dueDate |-> 2,
                   priority |-> "low", status |-> "overdue"]

SeedTask(t, c, a) ==
    [exists |-> TRUE, title |-> SeedDetail(t).title,
     description |-> SeedDetail(t).description, dueDate |-> SeedDetail(t).dueDate,
     priority |-> SeedDetail(t).priority, status |-> SeedDetail(t).status,
     createdBy |-> c, assignedTo |-> a, team |-> SeedUser(c).team]

PageInputs == {<<>>, <<2>>}
LimitInputs == {<<>>, <<1>>}
StatusInputs == {<<>>, <<"todo">>, <<"todo", "completed">>}
PriorityInputs == {<<>>, <<"high">>}
SortInputs == {"createdAt", "dueDate", "priority", "status"}
OrderInputs == {"asc", "desc"}
TextInputs == {"", "fix"}
AssigneeInputs == {0, 1, 3}
CreatorInputs == {0, 3}
TeamInputs == {"", "Engineering", "Sales"}
DateInputs == {0, 1}
TeamNames == Teams \cup {"Marketing"}
UserIdInputs == UserIds \cup {MaxUsers + 1}
ListUsersParams ==
    { [page |-> <<>>, limit |-> l, role |-> r, team |-> t] :
        l \in LimitInputs, r \in {"", "user"}, t \in {"", "Sales"} }

GetTasksParams ==
    { [NoParams EXCEPT !.page = pg, !.limit = lm, !.status = st, !.priority = pr,
                       !.sortBy = sb, !.order = od] :
        pg \in PageInputs, lm \in LimitInputs, st \in StatusInputs,
        pr \in PriorityInputs, sb \in SortInputs, od \in OrderInputs }

SearchParams ==
    { [NoParams EXCEPT !.page = pg, !.limit = lm, !.q = q, !.status = st,
                       !.priority = pr, !.assignee = a, !.creator = c, !.team = tm,
                       !.dueBefore = db, !.dueAfter = da] :
        pg \in PageInputs, lm \in LimitInputs, q \in TextInputs,
        st \in StatusInputs \ {<<"todo">>}, pr \in PriorityInputs, a \in AssigneeInputs,
        c \in CreatorInputs, tm \in TeamInputs, db \in DateInputs, da \in DateInputs }

InitQuery ==
    /\ users = SeedUsers
    /\ \E c \in [TaskIds -> UserIds], a \in [TaskIds -> UserIds] :
          tasks = [t \in TaskIds |-> SeedTask(t, c[t], a[t])]
    /\ blacklist = {}
    /\ issued = {}
    /\ loggedOut = {}
    /\ now = 0
    /\ reqs = <<>>
    /\ resp = NoResp
    /\ cache = NoCache
    /\ call = NoCall

\* a behaviour serves one bulk read: once it is answered nobody sends another
Requesters == IF resp.op = "none" THEN UserIds ELSE {}

NextQuery ==
    \/ \E p \in Requesters, prm \in GetTasksParams : getTasks(p, prm)
    \/ \E p \in Requesters, prm \in SearchParams : searchTasks(p, prm)
    \/ \E p \in Requesters : getOverview(p)
    \/ \E p \in Requesters : getTasksByStatus(p)
    \/ \E p \in Requesters, teamName \in TeamNames : getTeamStats(p, teamName)
    \/ \E p \in Requesters, userId \in UserIdInputs : getUserStats(p, userId)
    \/ \E p \in Requesters, prm \in ListUsersParams : listUsers(p, prm)

SpecQuery == InitQuery /\ [][NextQuery]_vars

(***************************************************************************)
(* Authentication: middleware/auth.middleware.ts authenticate, and the     *)
(* auth controller's login, logout and getProfile.  issued is the set of   *)
(* tokens the clients hold; loggedOut records the tokens whose logout      *)
(* returned 200 (history, not read by any handler).                        *)
(***************************************************************************)
AuthFail(err) == [code |-> 401, err |-> err, user |-> 0]

AuthOk(userId) == [code |-> 0, err |-> "", user |-> userId]

\* authenticate with the signature and expiry checked before the revocation
authenticateVerifyFirst(authHeader) ==
    LET token == extractTokenFromHeader(authHeader)
        decoded == verifyToken(token)
    IN IF token = NoToken THEN AuthFail("NO_TOKEN")
       ELSE IF decoded = NoPayload THEN AuthFail("INVALID_TOKEN")
       ELSE IF isTokenBlacklisted(token) THEN AuthFail("TOKEN_BLACKLISTED")
       ELSE IF ~users[decoded.userId].exists THEN AuthFail("USER_NOT_FOUND")
       ELSE AuthOk(decoded.userId)

\* authenticate without the lookup of the user
authenticateNoLookup(authHeader) ==
    LET token == extractTokenFromHeader(authHeader)
        decoded == verifyToken(token)
    IN IF token = NoToken THEN AuthFail("NO_TOKEN")
       ELSE IF isTokenBlacklisted(token) THEN AuthFail("TOKEN_BLACKLISTED")
       ELSE IF decoded = NoPayload THEN AuthFail("INVALID_TOKEN")
       ELSE AuthOk(decoded.userId)

authenticate(authHeader) ==
    LET token == extractTokenFromHeader(authHeader)
        decoded == verifyToken(token)
    IN IF token = NoToken THEN AuthFail("NO_TOKEN")
       ELSE IF isTokenBlacklisted(token) THEN AuthFail("TOKEN_BLACKLISTED")
       ELSE IF decoded = NoPayload THEN AuthFail("INVALID_TOKEN")
       ELSE IF ~users[decoded.userId].exists THEN AuthFail("USER_NOT_FOUND")
       ELSE AuthOk(decoded.userId)

\* the response of a request that authenticate has ended
Rejected(op, authHeader, auth) ==
    [NoResp EXCEPT !.op = op, !.code = auth.code, !.err = auth.err,
                   !.token = authHeader.token]

login(u, passwordValid) ==
    LET token == generateToken(u, users[u].role)
    IN /\ IF users[u].exists /\ passwordValid
          THEN /\ token \in issued \/ Cardinality(issued) < MaxTokens
               /\ issued' = issued \cup {token}
               /\ resp' = [NoResp EXCEPT !.op = "login", !.code = 200, !.user = u,
                                         !.token = token]
          ELSE /\ issued' = issued
               /\ resp' = [NoResp EXCEPT !.op = "login", !.code = 401,
                                         !.err = "INVALID_CREDENTIALS"]
       /\ UNCHANGED <<users, tasks, blacklist, loggedOut, now, reqs, call, cache>>

getProfile(authHeader) ==
    LET auth == authenticate(authHeader)
    IN /\ resp' = IF auth.user = 0 THEN Rejected("getProfile", authHeader, auth)
                  ELSE [NoResp EXCEPT !.op = "getProfile", !.code = 200,
                                      !.user = auth.user, !.token = authHeader.token]
       /\ UNCHANGED <<users, tasks, blacklist, issued, loggedOut, now, reqs, call, cache>>

\* blacklistToken: jwt.decode needs an exp; the index on token is unique
CanBlacklist(token) == token.exp # 0 /\ \A e \in blacklist : e.token # token

logout(authHeader) ==
    LET auth == authenticate(authHeader)
        token == extractTokenFromHeader(authHeader)
    IN /\ IF auth.user = 0
          THEN /\ resp' = Rejected("logout", authHeader, auth)
               /\ UNCHANGED <<blacklist, loggedOut>>
          ELSE IF CanBlacklist(token)
          THEN /\ blacklist' = blacklist \cup {[token |-> token, expiresAt |-> token.exp]}
               /\ loggedOut' = loggedOut \cup {token}
               /\ resp' = [NoResp EXCEPT !.op = "logout", !.code = 200,
                                         !.user = auth.user, !.token = token]
          ELSE /\ resp' = [NoResp EXCEPT !.op = "logout", !.code = 500,
                                         !.err = "LOGOUT_ERROR", !.user = auth.user,
                                         !.token = token]
               /\ UNCHANGED <<blacklist, loggedOut>>
       /\ UNCHANGED <<users, tasks, issued, now, reqs, call, cache>>

\* MongoDB's TTL monitor removes an expired revocation record
ExpireBlacklisted ==
    \E e \in blacklist :
        /\ TtlExpired(e)
        /\ blacklist' = blacklist \ {e}
        /\ UNCHANGED <<users, tasks, issued, loggedOut, now, reqs, resp, call, cache>>

Tick ==
    /\ now < MaxTime
    /\ now' = now + 1
    /\ UNCHANGED <<users, tasks, blacklist, issued, loggedOut, reqs, resp, call, cache>>

\* DELETE /api/auth/users/:userId: authenticate, requireAdmin(), deleteUser
deleteUser(authHeader, userId) ==
    LET auth == authenticate(authHeader)
        user == UserDoc(auth.user, "req.user")
        answer(code, err) == [NoResp EXCEPT !.op = "deleteUser", !.code = code, !.err = err,
                                            !.user = auth.user, !.target = userId,
                                            !.token = authHeader.token]
    IN /\ IF auth.user = 0
          THEN /\ resp' = Rejected("deleteUser", authHeader, auth)
               /\ users' = users
          ELSE IF ~requireAdmin(user)
          THEN /\ resp' = answer(403, "FORBIDDEN")
               /\ users' = users
          ELSE IF StrictEq(Str(userId), user._id)
          THEN /\ resp' = answer(400, "SELF_DELETE")
               /\ users' = users
          ELSE IF ~UserExists(userId)
          THEN /\ resp' = answer(404, "USER_NOT_FOUND")
               /\ users' = users
          ELSE /\ resp' = answer(200, "")
               /\ users' = [users EXCEPT ![userId] = NoUser]
       /\ UNCHANGED <<tasks, blacklist, issued, loggedOut, now, reqs, call, cache>>

\* a request through optionalAuthenticate: req.user is set or left unset, and
\* the request goes on either way
optionalAuthenticate(authHeader) ==
    LET token == extractTokenFromHeader(authHeader)
        decoded == verifyToken(token)
        attached == IF token = NoToken THEN 0
                    ELSE IF isTokenBlacklisted(token) THEN 0
                    ELSE IF decoded = NoPayload THEN 0
                    ELSE IF ~users[decoded.userId].exists THEN 0
                    ELSE decoded.userId
    IN /\ resp' = [NoResp EXCEPT !.op = "optionalAuthenticate", !.user = attached,
                                 !.token = authHeader.token]
       /\ UNCHANGED <<users, tasks, blacklist, issued, loggedOut, now, reqs, call, cache>>

\* services/socketService.ts io.use: the token of handshake.auth, or else the
\* Authorization header with 'Bearer ' cut out; jwt.verify; User.findById
socketHandshake(authToken, authHeader) ==
    LET token == IF authToken # NoToken THEN authToken
                 ELSE IF authHeader.scheme = "Bearer" THEN authHeader.token
                 ELSE NoToken
        present == authToken # NoToken \/ authHeader # NoHeader
        decoded == verifyToken(token)
        answer(user, err) == [NoResp EXCEPT !.op = "socketHandshake", !.user = user,
                                            !.err = err, !.token = token]
    IN /\ resp' = IF ~present THEN answer(0, "Authentication required")
                  ELSE IF decoded = NoPayload THEN answer(0, "Invalid token")
                  ELSE IF ~users[decoded.userId].exists THEN answer(0, "User not found")
                  ELSE answer(decoded.userId, "")
       /\ UNCHANGED <<users, tasks, blacklist, issued, loggedOut, now, reqs, call, cache>>

\* the Authorization headers a client can send
Headers ==
    {NoHeader, [scheme |-> "Basic", token |-> NoToken]}
    \cup {Bearer(t) : t \in issued}
    \cup {Bearer(ForgedToken(u, "admin")) : u \in {1}}

InitAuth ==
    /\ users = SeedUsers
    /\ tasks = [t \in TaskIds |-> NoTask]
    /\ blacklist = {}
    /\ issued = {}
    /\ loggedOut = {}
    /\ now = 0
    /\ reqs = <<>>
    /\ resp = NoResp
    /\ cache = NoCache
    /\ call = NoCall

NextAuth ==
    \/ \E u \in UserIds, passwordValid \in BOOLEAN : login(u, passwordValid)
    \/ \E h \in Headers : getProfile(h)
    \/ \E h \in Headers : logout(h)
    \/ \E h \in Headers, u \in UserIds : deleteUser(h, u)
    \/ \E h \in Headers : optionalAuthenticate(h)
    \/ \E h \in Headers : socketHandshake(NoToken, h)
    \/ \E t \in issued : socketHandshake(t, NoHeader)
    \/ ExpireBlacklisted
    \/ Tick

SpecAuth == InitAuth /\ [][NextAuth]_vars

(***************************************************************************)
(* Single-task handlers and assignment: controllers/task.controller.ts     *)
(* createTask, getTaskById, updateTask, deleteTask, assignTask and         *)
(* bulkAssignTasks behind routes/task.routes.ts.  p is req.user.  Request  *)
(* bodies are the ones utils/validators.ts lets through.  In a body a      *)
(* text is {} when absent, an optional field is <<>> when absent and <<v>> *)
(* when given, an id is 0 when absent.                                     *)
(***************************************************************************)
TaskOk(op, p, t, code) == [NoResp EXCEPT !.op = op, !.user = p, !.task = t, !.code = code]

\* the denial answered as 403 where the handlers answer 404
TaskForbidden(op, p, t) == TaskError(op, p, t, 403, "FORBIDDEN", "Access denied")

TaskNotFound(op, p, t) == TaskError(op, p, t, 404, "NOT_FOUND", "Task not found")

\* Task.findById(id): is there a document with this id
TaskExists(t) == t \in TaskIds /\ tasks[t].exists

\* models/Task.model.ts pre('save'): past its due date and not completed is overdue
PreSave(task) ==
    IF task.dueDate # 0 /\ task.dueDate < now /\ task.status # "completed"
    THEN [task EXCEPT !.status = "overdue"]
    ELSE task

\* the id of the next document: ids are handed out in creation order
NextTaskId ==
    IF \E t \in TaskIds : tasks[t].exists
    THEN 1 + CHOOSE t \in TaskIds : tasks[t].exists /\ \A o \in TaskIds : tasks[o].exists => o <= t
    ELSE 1

createTask(p, body) ==
    LET user == UserDoc(p, "req.user")
        t == NextTaskId
        toOther == body.assignedTo # 0 /\ ~StrictEq(Str(body.assignedTo), user._id)
        doc == [exists |-> TRUE, title |-> body.title, description |-> body.description,
                dueDate |-> body.dueDate,
                priority |-> IF body.priority = "" THEN "medium" ELSE body.priority,
                status |-> "todo", createdBy |-> p,
                assignedTo |-> IF body.assignedTo # 0 THEN body.assignedTo ELSE p,
                team |-> user.team]
    IN /\ resp.op = "none"
       /\ users[p].exists
       /\ t \in TaskIds
       /\ IF toOther /\ ~canAssignTask(user)
          THEN /\ resp' = TaskError("createTask", p, 0, 403, "FORBIDDEN",
                                    "You do not have permission to assign tasks to others")
               /\ tasks' = tasks
               /\ cache' = cache
          ELSE /\ tasks' = [tasks EXCEPT ![t] = PreSave(doc)]
               /\ cache' = invalidateTaskCaches
               /\ resp' = TaskOk("createTask", p, t, 201)
       /\ UNCHANGED <<users, blacklist, issued, loggedOut, now, reqs, call>>

getTaskById(p, t) ==
    LET user == UserDoc(p, "req.user")
    IN /\ resp.op = "none"
       /\ users[p].exists
       /\ resp' = IF ~TaskExists(t) THEN TaskNotFound("getTaskById", p, t)
                  ELSE IF ~canAccessTask(user, TaskDoc(t, TRUE))
                  THEN TaskNotFound("getTaskById", p, t)
                  ELSE TaskOk("getTaskById", p, t, 200)
       /\ UNCHANGED <<users, tasks, blacklist, issued, loggedOut, now, reqs, call, cache>>

\* the assignments of updateTask to the loaded document
UpdatedTask(task, body) ==
    [task EXCEPT
        !.title = IF body.title # {} THEN body.title ELSE @,
        !.description = IF body.description # <<>> THEN body.description[1] ELSE @,
        !.dueDate = IF body.dueDate # <<>> THEN body.dueDate[1] ELSE @,
        !.priority = IF body.priority # "" THEN body.priority ELSE @,
        !.status = IF body.status # "" THEN body.status ELSE @]

updateTask(p, t, body) ==
    LET user == UserDoc(p, "req.user")
    IN /\ resp.op = "none"
       /\ users[p].exists
       /\ IF ~TaskExists(t) \/ ~canAccessTask(user, TaskDoc(t, FALSE))
          THEN /\ resp' = TaskNotFound("updateTask", p, t)
               /\ tasks' = tasks
               /\ cache' = cache
          ELSE /\ tasks' = [tasks EXCEPT ![t] = PreSave(UpdatedTask(tasks[t], body))]
               /\ cache' = invalidateTaskCaches
               /\ resp' = TaskOk("updateTask", p, t, 200)
       /\ UNCHANGED <<users, blacklist, issued, loggedOut, now, reqs, call>>

deleteTask(p, t) ==
    LET user == UserDoc(p, "req.user")
    IN /\ resp.op = "none"
       /\ users[p].exists
       /\ IF ~TaskExists(t) \/ ~canAccessTask(user, TaskDoc(t, FALSE))
          THEN /\ resp' = TaskNotFound("deleteTask", p, t)
               /\ tasks' = tasks
               /\ cache' = cache
          ELSE /\ tasks' = [tasks EXCEPT ![t] = NoTask]
               /\ cache' = invalidateTaskCaches
               /\ resp' = TaskOk("deleteTask", p, t, 200)
       /\ UNCHANGED <<users, blacklist, issued, loggedOut, now, reqs, call>>

assignTask(p, t, assignedTo) ==
    LET user == UserDoc(p, "req.user")
    IN /\ resp.op = "none"
       /\ users[p].exists
       /\ IF ~requireManager(user)
          THEN /\ resp' = RoleDenied("assignTask", p, t, "admin, manager")
               /\ tasks' = tasks
               /\ cache' = cache
          ELSE IF ~canAssignTask(user)
          THEN /\ resp' = TaskError("assignTask", p, t, 403, "FORBIDDEN",
                                    "You do not have permission to assign tasks")
               /\ tasks' = tasks
               /\ cache' = cache
          ELSE IF ~TaskExists(t) \/ ~canAccessTask(user, TaskDoc(t, FALSE))
          THEN /\ resp' = TaskNotFound("assignTask", p, t)
               /\ tasks' = tasks
               /\ cache' = cache
          ELSE /\ tasks' = [tasks EXCEPT ![t] = PreSave([@ EXCEPT !.assignedTo = assignedTo])]
               /\ cache' = invalidateTaskCaches
               /\ resp' = TaskOk("assignTask", p, t, 200)
       /\ UNCHANGED <<users, blacklist, issued, loggedOut, now, reqs, call>>

\* an update that hands the tasks over entirely: $set of createdBy as well
UpdateManyTakingOver(taskIds, assignedTo) ==
    [t \in TaskIds |->
        IF t \in taskIds /\ tasks[t].exists
        THEN [tasks[t] EXCEPT !.assignedTo = assignedTo, !.createdBy = assignedTo]
        ELSE tasks[t]]

\* Task.updateMany({_id: {$in: taskIds}}, {$set: {assignedTo}}): no document is
\* loaded, no save hook runs
UpdateManyAssignedTo(taskIds, assignedTo) ==
    [t \in TaskIds |->
        IF t \in taskIds /\ tasks[t].exists
        THEN [tasks[t] EXCEPT !.assignedTo = assignedTo]
        ELSE tasks[t]]

bulkAssignTasks(p, taskIds, assignedTo) ==
    LET user == UserDoc(p, "req.user")
        updated == UpdateManyAssignedTo(taskIds, assignedTo)
    IN /\ resp.op = "none"
       /\ users[p].exists
       /\ IF ~requireManager(user)
          THEN /\ resp' = RoleDenied("bulkAssignTasks", p, 0, "admin, manager")
               /\ tasks' = tasks
          ELSE IF ~canAssignTask(user)
          THEN /\ resp' = TaskError("bulkAssignTasks", p, 0, 403, "FORBIDDEN",
                                    "You do not have permission to assign tasks")
               /\ tasks' = tasks
          ELSE IF taskIds = {}
          THEN /\ resp' = TaskError("bulkAssignTasks", p, 0, 400, "INVALID_INPUT",
                                    "taskIds must be a non-empty array")
               /\ tasks' = tasks
          ELSE IF ~UserExists(assignedTo)
          THEN /\ resp' = TaskError("bulkAssignTasks", p, 0, 404, "USER_NOT_FOUND",
                                    "Assignee user not found")
               /\ tasks' = tasks
          ELSE /\ tasks' = updated
               /\ resp' = [TaskOk("bulkAssignTasks", p, 0, 200) EXCEPT
                             !.total = Cardinality({t \in TaskIds : updated[t] # tasks[t]})]
       /\ UNCHANGED <<users, blacklist, issued, loggedOut, now, reqs, call, cache>>

(***************************************************************************)
(* The stores the single-task handlers are checked on: the seeded users,   *)
(* each task slot empty or holding a task of any creator and any assignee  *)
(* (or none), at any point of the clock.  The handlers do not read the     *)
(* response of an earlier request: a behaviour serves one request on its   *)
(* store.                                                                  *)
(***************************************************************************)
AssigneeIds == UserIds \cup {0, MaxUsers + 1}

\* validateTaskCreation: a title, and a due date that is not in the past
validateTaskCreation(body) ==
    body.title # {} /\ (body.dueDate = 0 \/ body.dueDate >= now)

CreateBodies ==
    { [title |-> {"new", "task"}, description |-> {}, dueDate |-> d, priority |-> pr,
       assignedTo |-> a] :
        d \in {0, MaxTime}, pr \in {"", "high"}, a \in UserIds \cup {0} }

UpdateBodies ==
    { [title |-> {}, description |-> <<>>, dueDate |-> d, priority |-> "", status |-> st] :
        d \in {<<>>, <<0>>, <<1>>}, st \in {"", "todo", "completed"} }
    \cup { [title |-> {"renamed"}, description |-> <<{"more"}>>, dueDate |-> <<>>,
            priority |-> "low", status |-> "in-progress"] }

\* a task still to do whose due date is the first tick
DueTask(t, c) == [SeedTask(t, c, c) EXCEPT !.dueDate = 1, !.status = "todo"]

StoredTasks(t) ==
    {NoTask} \cup {[SeedTask(t, c, c) EXCEPT !.assignedTo = a] :
                      c \in UserIds, a \in UserIds \cup {0}}
             \cup {DueTask(t, c) : c \in UserIds}

InitTasks ==
    /\ users = SeedUsers
    /\ tasks \in {f \in [TaskIds -> UNION {StoredTasks(t) : t \in TaskIds}] :
                     \A t \in TaskIds : f[t] \in StoredTasks(t)}
    /\ blacklist = {}
    /\ issued = {}
    /\ loggedOut = {}
    /\ now \in 1..MaxTime
    /\ reqs = <<>>
    /\ resp = NoResp
    /\ cache = NoCache
    /\ call = NoCall

NextTasks ==
    \/ \E p \in UserIds, body \in CreateBodies :
          validateTaskCreation(body) /\ createTask(p, body)
    \/ \E p \in UserIds, t \in TaskIds : getTaskById(p, t)
    \/ \E p \in UserIds, t \in TaskIds, body \in UpdateBodies : updateTask(p, t, body)
    \/ \E p \in UserIds, t \in TaskIds : deleteTask(p, t)
    \/ \E p \in UserIds, t \in TaskIds, a \in AssigneeIds : assignTask(p, t, a)
    \/ \E p \in UserIds, ids \in SUBSET TaskIds, a \in AssigneeIds :
          bulkAssignTasks(p, ids, a)

SpecTasks == InitTasks /\ [][NextTasks]_vars

(***************************************************************************)
(* The cached overview next to the task mutations.  The store is drawn as  *)
(* for the single-task handlers (each creator assigned to the own task);   *)
(* the cache holds the overview of any set of users, each computed from    *)
(* this store by an earlier getOverview, or nothing when the client never  *)
(* connected.  A behaviour serves one request and then one overview read.  *)
(***************************************************************************)
TaskMutations == {"createTask", "updateTask", "deleteTask", "assignTask", "bulkAssignTasks"}

Succeeded(r) == r.code \in {200, 201}

\* what getOverview(p) left in the cache
CachedOverview(p) ==
    [key |-> getAnalyticsKey("overview", <<p, users[p].role>>),
     data |-> Result(OverviewCounts(UserDoc(p, "req.user"))),
     exp |-> now + AnalyticsTtl]

CachedTasks(t) == {NoTask} \cup {SeedTask(t, c, c) : c \in UserIds}

InitCache ==
    /\ users = SeedUsers
    /\ tasks \in {f \in [TaskIds -> UNION {CachedTasks(t) : t \in TaskIds}] :
                     \A t \in TaskIds : f[t] \in CachedTasks(t)}
    /\ blacklist = {}
    /\ issued = {}
    /\ loggedOut = {}
    /\ now \in 1..MaxTime
    /\ reqs = <<>>
    /\ resp = NoResp
    /\ call = NoCall
    /\ \E readers \in SUBSET UserIds, client \in {"ready", "failing", "absent"} :
          cache = [client |-> client,
                   entries |-> IF client = "absent" THEN {}
                               ELSE {CachedOverview(p) : p \in readers}]

\* the overview read that follows a task mutation
getOverviewAfter(p) == resp.op \in TaskMutations /\ OverviewRequest(p)

NextCache ==
    \/ NextTasks
    \/ \E p \in UserIds : getOverview(p)
    \/ \E p \in UserIds : getOverviewAfter(p)

SpecCache == InitCache /\ [][NextCache]_vars

(***************************************************************************)
(* User management: the auth controller's register, updateUserRole and     *)
(* deleteUser behind routes/auth.routes.ts.  A handler gives up control at *)
(* every await of a store call, so a request is a sequence of steps, one   *)
(* per store call, and the steps of concurrent requests interleave.        *)
(* reqs[i] is the i-th request: its inputs, the user that authenticate     *)
(* attached to it (a copy: later writes to the store do not reach it), the *)
(* document it loaded, and its response once pc is "done".                 *)
(***************************************************************************)
MaxReqs == 2

ReqIds == 1..MaxReqs

NoReq ==
    [op |-> "none", pc |-> "idle", principal |-> 0, prole |-> "", pteam |-> Undefined,
     userId |-> 0, role |-> "", username |-> "", email |-> "", team |-> Undefined,
     loaded |-> "", code |-> 0, err |-> "", outRole |-> "", newId |-> 0]

\* req.user of request r
ReqUser(r) == [_id |-> Oid(r.principal, "req.user"), role |-> r.prole, team |-> r.pteam]

Done(r, code, err) == [r EXCEPT !.pc = "done", !.code = code, !.err = err]

\* requests are numbered in the order they arrive
CanArrive(i) ==
    /\ reqs[i].pc = "idle"
    /\ IF i = 1 THEN TRUE ELSE reqs[i - 1].pc # "idle"

\* the same with req.user taking role from the payload of the token
AdmittedByClaim(r, token) ==
    LET auth == authenticate(Bearer(token))
        doc == UserDoc(auth.user, "req.user")
        r1 == [r EXCEPT !.principal = auth.user, !.prole = token.role, !.pteam = doc.team]
    IN IF auth.user = 0 THEN Done(r, auth.code, auth.err)
       ELSE IF ~requireAdmin(ReqUser(r1)) THEN Done(r1, 403, "FORBIDDEN")
       ELSE [r1 EXCEPT !.pc = "handler"]

\* authenticate, then the route's requireAdmin(): the request with req.user attached
\* and pc "handler", or the request ended by the first gate that fails
Admitted(r, token) ==
    LET auth == authenticate(Bearer(token))
        doc == UserDoc(auth.user, "req.user")
        r1 == [r EXCEPT !.principal = auth.user, !.prole = doc.role, !.pteam = doc.team]
    IN IF auth.user = 0 THEN Done(r, auth.code, auth.err)
       ELSE IF ~requireAdmin(ReqUser(r1)) THEN Done(r1, 403, "FORBIDDEN")
       ELSE [r1 EXCEPT !.pc = "handler"]

\* updateUserRole up to `await User.findById(userId)`
updateUserRoleStart(i, token, userId, role) ==
    LET r == Admitted([NoReq EXCEPT !.op = "updateUserRole", !.userId = userId,
                                     !.role = role], token)
    IN /\ CanArrive(i)
       /\ reqs' = [reqs EXCEPT ![i] =
                     IF r.pc = "done" THEN r
                     ELSE IF ~canAssignRole(ReqUser(r), role) THEN Done(r, 403, "FORBIDDEN")
                     ELSE [r EXCEPT !.pc = "find"]]
       /\ UNCHANGED <<users, tasks, blacklist, issued, loggedOut, now, resp, call, cache>>

\* User.findById(userId) resolves; the handler runs on to `await user.save()`
updateUserRoleFind(i) ==
    LET r == reqs[i]
        user == UserDoc(r.userId, "user")
    IN /\ r.op = "updateUserRole"
       /\ r.pc = "find"
       /\ reqs' = [reqs EXCEPT ![i] =
                     IF ~UserExists(r.userId) THEN Done(r, 404, "USER_NOT_FOUND")
                     ELSE IF StrictEq(OidToString(user._id), ReqUser(r)._id)
                     THEN Done(r, 400, "SELF_ROLE_CHANGE")
                     ELSE [r EXCEPT !.pc = "save", !.loaded = user.role]]
       /\ UNCHANGED <<users, tasks, blacklist, issued, loggedOut, now, resp, call, cache>>

\* user.save(): writes the role if the assignment changed it; the write finds the
\* document or fails
updateUserRoleSave(i) ==
    LET r == reqs[i]
    IN /\ r.op = "updateUserRole"
       /\ r.pc = "save"
       /\ IF r.role = r.loaded
          THEN /\ users' = users
               /\ reqs' = [reqs EXCEPT ![i] = [Done(r, 200, "") EXCEPT !.outRole = r.role]]
          ELSE IF ~UserExists(r.userId)
          THEN /\ users' = users
               /\ reqs' = [reqs EXCEPT ![i] = Done(r, 500, "UPDATE_ROLE_ERROR")]
          ELSE /\ users' = [users EXCEPT ![r.userId].role = r.role]
               /\ reqs' = [reqs EXCEPT ![i] = [Done(r, 200, "") EXCEPT !.outRole = r.role]]
       /\ UNCHANGED <<tasks, blacklist, issued, loggedOut, now, resp, call, cache>>

\* deleteUser up to `await User.findByIdAndDelete(userId)`
deleteUserStart(i, token, userId) ==
    LET r == Admitted([NoReq EXCEPT !.op = "deleteUser", !.userId = userId], token)
    IN /\ CanArrive(i)
       /\ reqs' = [reqs EXCEPT ![i] =
                     IF r.pc = "done" THEN r
                     ELSE IF StrictEq(Str(userId), ReqUser(r)._id)
                     THEN Done(r, 400, "SELF_DELETE")
                     ELSE [r EXCEPT !.pc = "delete"]]
       /\ UNCHANGED <<users, tasks, blacklist, issued, loggedOut, now, resp, call, cache>>

\* User.findByIdAndDelete(userId)
deleteUserDelete(i) ==
    LET r == reqs[i]
    IN /\ r.op = "deleteUser"
       /\ r.pc = "delete"
       /\ IF ~UserExists(r.userId)
          THEN /\ users' = users
               /\ reqs' = [reqs EXCEPT ![i] = Done(r, 404, "USER_NOT_FOUND")]
          ELSE /\ users' = [users EXCEPT ![r.userId] = NoUser]
               /\ reqs' = [reqs EXCEPT ![i] = Done(r, 200, "")]
       /\ UNCHANGED <<tasks, blacklist, issued, loggedOut, now, resp, call, cache>>

\* validateRegistration: role is optional, one of the three when given
validateRegistration(body) == body.role = "" \/ body.role \in {"admin", "manager", "user"}

RegisterRoleAsGiven(role) == IF role # "" THEN role ELSE "user"

\* assignedRole = role && ['admin', 'manager'].includes(role) ? 'user' : (role || 'user')
RegisterRole(role) ==
    IF role # "" /\ role \in {"admin", "manager"} THEN "user"
    ELSE IF role # "" THEN role ELSE "user"

\* User.findOne({$or: [{email}, {username}]}), and what the unique indexes refuse
Taken(username, email) ==
    \E u \in UserIds :
        users[u].exists /\ (users[u].email = email \/ users[u].username = username)

\* ids that no document has had: every user was handed a token at creation
FreeIds == {u \in UserIds : ~users[u].exists /\ \A t \in issued : t.userId # u}

Creating == {j \in ReqIds : reqs[j].op = "register" /\ reqs[j].pc = "create"}

\* register up to `await User.create(...)`
registerStart(i, body) ==
    LET r == [NoReq EXCEPT !.op = "register", !.role = body.role, !.team = body.team,
                           !.username = body.username, !.email = body.email]
    IN /\ CanArrive(i)
       /\ Cardinality(FreeIds) > Cardinality(Creating)
       /\ reqs' = [reqs EXCEPT ![i] =
                     IF Taken(body.username, body.email) THEN Done(r, 400, "USER_EXISTS")
                     ELSE [r EXCEPT !.pc = "create"]]
       /\ UNCHANGED <<users, tasks, blacklist, issued, loggedOut, now, resp, call, cache>>

\* User.create(...) resolves, the token is signed and the response sent
registerCreate(i) ==
    LET r == reqs[i]
        id == CHOOSE u \in FreeIds : \A o \in FreeIds : u <= o
        assignedRole == RegisterRole(r.role)
        user == [exists |-> TRUE, username |-> r.username, email |-> r.email,
                 role |-> assignedRole, team |-> r.team]
    IN /\ r.op = "register"
       /\ r.pc = "create"
       /\ IF Taken(r.username, r.email)
          THEN /\ reqs' = [reqs EXCEPT ![i] = Done(r, 500, "REGISTRATION_ERROR")]
               /\ UNCHANGED <<users, issued>>
          ELSE /\ users' = [users EXCEPT ![id] = user]
               /\ issued' = issued \cup {generateToken(id, user.role)}
               /\ reqs' = [reqs EXCEPT ![i] =
                             [Done(r, 201, "") EXCEPT !.outRole = user.role, !.newId = id]]
       /\ UNCHANGED <<tasks, blacklist, loggedOut, now, resp, call, cache>>

(***************************************************************************)
(* The stores user management is checked on: the first seeded users, the   *)
(* token each of them holds, and free ids for registrations.               *)
(***************************************************************************)
Identities ==
    {[username |-> "newbie", email |-> "newbie@example.com"],
     [username |-> "admin", email |-> "boss@example.com"],
     [username |-> "rookie", email |-> "newbie@example.com"]}

RegisterBodies ==
    { [username |-> id.username, email |-> id.email, role |-> role, team |-> team] :
        id \in Identities, role \in Roles \cup {""}, team \in {Undefined, "Sales"} }

InitUsers ==
    /\ now = 0
    /\ \E k \in {MaxUsers - 2, MaxUsers - 1} :
          /\ users = [u \in UserIds |-> IF u <= k THEN SeedUser(u) ELSE NoUser]
          /\ issued = {generateToken(u, SeedUser(u).role) : u \in 1..k}
    /\ tasks = [t \in TaskIds |-> NoTask]
    /\ blacklist = {}
    /\ loggedOut = {}
    /\ reqs = [i \in ReqIds |-> NoReq]
    /\ resp = NoResp
    /\ cache = NoCache
    /\ call = NoCall

NextUsers ==
    \/ \E i \in ReqIds, token \in issued, userId \in UserIds, role \in RoleInputs :
          updateUserRoleStart(i, token, userId, role)
    \/ \E i \in ReqIds : updateUserRoleFind(i)
    \/ \E i \in ReqIds : updateUserRoleSave(i)
    \/ \E i \in ReqIds, token \in issued, userId \in UserIds :
          deleteUserStart(i, token, userId)
    \/ \E i \in ReqIds : deleteUserDelete(i)
    \/ \E i \in ReqIds, body \in RegisterBodies :
          validateRegistration(body) /\ registerStart(i, body)
    \/ \E i \in ReqIds : registerCreate(i)

SpecUsers == InitUsers /\ [][NextUsers]_vars

\* C1: canAccessTask(P,T) is true iff P is admin, or P is a manager with a team label
\* equal to T.team, or P is T's creator, or P is T's assignee; false in every other case.
C1_Expected(user, task) ==
    \/ user.role = "admin"
    \/ user.role = "manager" /\ user.team # Undefined /\ user.team = task.team
    \/ task.createdBy.v = user._id.v
    \/ task.assignedTo.v = user._id.v

C1_CanAccessTaskIff ==
    (call.fn = "canAccessTask" /\ call.done)
        => (call.out <=> C1_Expected(call.user, call.task))

\* the same statement over the plain objects of the unit tests only
C1_CanAccessTaskIffPlain ==
    (call.fn = "canAccessTask" /\ call.done /\ call.rep = "plain")
        => (call.out <=> C1_Expected(call.user, call.task))

(***************************************************************************)
(* Claims about the bulk reads (SpecQuery: the store does not change).     *)
(***************************************************************************)
OwnTasks(p) ==
    {t \in TaskIds : tasks[t].exists /\ (tasks[t].createdBy = p \/ tasks[t].assignedTo = p)}

\* C2: for a principal P with role user, every task returned by getTasks or
\* searchTasks, for every page, limit, sort and filter combination, has creator P or
\* assignee P; with no extra filter the tasks returned over all pages are exactly
\* the tasks P created or is assigned to.
C2_UserScope ==
    (resp.op \in {"getTasks", "searchTasks"} /\ resp.code = 200
        /\ users[resp.user].role = "user")
        => /\ Range(resp.rows) \subseteq OwnTasks(resp.user)
           /\ resp.all \subseteq OwnTasks(resp.user)
           /\ ~resp.req.filtered => resp.all = OwnTasks(resp.user)

\* a user searched with a team filter, got a task, and the store holds a task that
\* matches the team filter but is not the user's
C2_Witness ==
    /\ resp.op = "searchTasks"
    /\ users[resp.user].role = "user"
    /\ resp.req.team # ""
    /\ resp.rows # <<>>
    /\ \E t \in TaskIds \ OwnTasks(resp.user) : tasks[t].team = resp.req.team

\* C3: a manager with team label X calling searchTasks with any team filter receives
\* only tasks whose team label is X.
C3_ManagerTeamScope ==
    (resp.op = "searchTasks" /\ resp.code = 200
        /\ users[resp.user].role = "manager" /\ Truthy(users[resp.user].team))
        => \A t \in Range(resp.rows) : tasks[t].team = users[resp.user].team

\* C4: a manager with no team label is scoped like a plain user in getTasks,
\* searchTasks, getOverview and getTasksByStatus: only tasks the manager created or is
\* assigned to are returned or counted.
C4_TeamlessManagerScope ==
    (resp.code = 200 /\ users[resp.user].role = "manager"
        /\ ~Truthy(users[resp.user].team))
        => /\ resp.op \in {"getTasks", "searchTasks"}
                => Range(resp.rows) \subseteq OwnTasks(resp.user)
           /\ resp.op \in {"getOverview", "getTasksByStatus"}
                => resp.counts.scope \subseteq OwnTasks(resp.user)

\* C5: once logout with token t has returned 200, no later request bearing t is
\* resolved to a principal by authenticate: while the revocation record exists the
\* request is rejected as TOKEN_BLACKLISTED, the record is removed only once t's own
\* expiry has been reached, and from then on t is rejected as INVALID_TOKEN (expired).
C5_RequestStep == now' = now /\ blacklist \subseteq blacklist'

C5_WitnessExpired ==
    /\ resp.op = "getProfile"
    /\ resp.token \in loggedOut
    /\ ~isTokenBlacklisted(resp.token)
    /\ resp.err = "INVALID_TOKEN"

(***************************************************************************)
(* Claims about the single-task handlers (SpecTasks).  A step of SpecTasks *)
(* is one request: resp' is its response, the unprimed store is the store  *)
(* the request found.                                                      *)
(***************************************************************************)
SingleTaskOps == {"getTaskById", "updateTask", "deleteTask", "assignTask"}

\* the handler op evaluates canAccessTask(req.user, task) on the task it loaded to FALSE
AccessDenied(op, p, t) ==
    /\ TaskExists(t)
    /\ ~canAccessTask(UserDoc(p, "req.user"), TaskDoc(t, op = "getTaskById"))

\* the denial of an existing task is answered as a missing task is
DeniedLooksMissing ==
    (resp'.op \in SingleTaskOps /\ AccessDenied(resp'.op, resp'.user, resp'.task))
        => /\ resp' = TaskNotFound(resp'.op, resp'.user, resp'.task)
           /\ tasks' = tasks

\* the same, for the requests that reach the handler's task lookup
DeniedLooksMissingPastRoute ==
    (resp'.op = "assignTask" => requireManager(UserDoc(resp'.user, "req.user")))
        => DeniedLooksMissing

\* the creator and the assignee read their task
OwnerReads ==
    (/\ resp'.op = "getTaskById"
     /\ TaskExists(resp'.task)
     /\ resp'.user \in {tasks[resp'.task].createdBy, tasks[resp'.task].assignedTo})
        => resp'.code = 200

\* C6: for single-task read, update, delete and assign, a principal for whom
\* canAccessTask denies an existing task gets the very response of a missing task
\* (404 NOT_FOUND, same body); the task's creator or assignee gets 200 on read.
C6_DenialIsNotFoundAndOwnerReads == [][DeniedLooksMissing /\ OwnerReads]_vars

\* the first half of C6 for requests past the route's role gate
C6_DenialIsNotFound == [][DeniedLooksMissingPastRoute]_vars

\* C7: neither assignTask nor bulkAssignTasks changes the assignee of a task on
\* behalf of a principal who is not admin, not a manager of the task's team, not the
\* task's creator and not its assignee.
C7_AssignNeedsAccess ==
    [][\A t \in TaskIds :
          (/\ resp'.op \in {"assignTask", "bulkAssignTasks"}
           /\ tasks[t].exists
           /\ tasks'[t].assignedTo # tasks[t].assignedTo)
             => C1_Expected(UserDoc(resp'.user, "req.user"), TaskDoc(t, FALSE))]_vars

\* the same for assignTask alone
C7_AssignTaskNeedsAccess ==
    [][\A t \in TaskIds :
          (/\ resp'.op = "assignTask"
           /\ tasks[t].exists
           /\ tasks'[t].assignedTo # tasks[t].assignedTo)
             => C1_Expected(UserDoc(resp'.user, "req.user"), TaskDoc(t, FALSE))]_vars

(***************************************************************************)
(* Claims about user management (SpecUsers: concurrent requests).          *)
(***************************************************************************)
RoleChanged(u) ==
    users[u].exists /\ users'[u].exists /\ users'[u].role # users[u].role

\* request i completes a role update of u in this step
RoleUpdateBy(i, u) ==
    /\ reqs[i].op = "updateUserRole"
    /\ reqs[i].pc = "save"
    /\ reqs'[i].pc = "done"
    /\ reqs'[i].code = 200
    /\ reqs[i].userId = u

CanAssignRoleTable ==
    \A role \in Roles, team \in TeamValues, target \in RoleInputs :
        canAssignRole(ArgUser("hydrated", 1, role, team), target)
            <=> (role = "admin" /\ target \in {"admin", "manager", "user"})

\* C8: a stored role changes only in the save step of an updateUserRole request whose
\* principal has role admin, to a target role in {admin, manager, user}; canAssignRole
\* is true exactly for an admin principal and such a target role; no other step of any
\* request, under any interleaving, changes a stored role.
C8_RoleChangeOnlyByAdmin ==
    [][/\ CanAssignRoleTable
       /\ \A u \in UserIds :
             RoleChanged(u) =>
                \E i \in ReqIds :
                    /\ RoleUpdateBy(i, u)
                    /\ reqs[i].prole = "admin"
                    /\ reqs[i].role \in {"admin", "manager", "user"}
                    /\ users'[u].role = reqs[i].role]_vars

\* an admin changed the role of another user while a second request was running
C8_Witness ==
    \E i \in ReqIds, j \in ReqIds :
        /\ i # j
        /\ reqs[i].op = "updateUserRole"
        /\ reqs[i].code = 200
        /\ reqs[i].userId # reqs[i].principal
        /\ users[reqs[i].userId].role = reqs[i].role
        /\ reqs[i].role # reqs[i].loaded
        /\ reqs[j].pc \notin {"idle", "done"}

\* C9: an updateUserRole request of an admin principal that targets the principal's
\* own id ends with a non-success response and leaves that user's stored role as it
\* was, whatever role the payload names.
C9_SelfRoleChangeRejected ==
    [][\A i \in ReqIds :
          (/\ reqs[i].op = "updateUserRole"
           /\ reqs[i].prole = "admin"
           /\ reqs[i].userId = reqs[i].principal
           /\ reqs[i].pc # "done"
           /\ reqs'[i].pc = "done")
             => /\ reqs'[i].code # 200
                /\ users'[reqs[i].principal].role = users[reqs[i].principal].role]_vars

\* C10: a register request that creates a user stores role user and returns role
\* user, whatever role its payload carries; no step creates a user with another role.
C10_RegisterCreatesUserRole ==
    [][/\ \A i \in ReqIds :
             (reqs[i].op = "register" /\ reqs[i].pc = "create" /\ reqs'[i].code = 201)
                => /\ users'[reqs'[i].newId].exists
                   /\ ~users[reqs'[i].newId].exists
                   /\ users'[reqs'[i].newId].role = "user"
                   /\ reqs'[i].outRole = "user"
       /\ \A u \in UserIds :
             (~users[u].exists /\ users'[u].exists) => users'[u].role = "user"]_vars

\* a registration that asked for role admin has created its user
C10_Witness ==
    \E i \in ReqIds :
        /\ reqs[i].op = "register"
        /\ reqs[i].role = "admin"
        /\ reqs[i].code = 201
        /\ users[reqs[i].newId].exists
        /\ users[reqs[i].newId].username = reqs[i].username

(***************************************************************************)
(* Claims about the overview cache (SpecCache).                            *)
(***************************************************************************)
\* the four numbers of the overview response r are those of the store (which a
\* read leaves as it is)
FreshOverview(r) ==
    /\ ~r.cached
    /\ Result(r.counts) = Result(OverviewCounts(UserDoc(r.user, "req.user")))

\* a completed mutation leaves no entry in the tasks and analytics namespaces
MutationClearsCache ==
    (resp.op = "none" /\ resp'.op \in TaskMutations /\ Succeeded(resp'))
        => {e \in Live(cache)' : e.key.ns \in {"tasks", "analytics"}} = {}

\* the overview read after a completed mutation is recomputed from the store
ReadAfterMutationIsFresh ==
    (resp.op \in TaskMutations /\ Succeeded(resp) /\ resp'.op = "getOverview")
        => resp'.code = 200 /\ FreshOverview(resp')

\* C11: with a working cache client, once a task mutation (createTask,
\* updateTask, deleteTask, assignTask, bulkAssignTasks) has completed, the
\* tasks and analytics namespaces hold no entry, and the next overview read
\* by any principal is recomputed from the store, not served from an entry
\* cached before the mutation.
C11_MutationInvalidatesCache ==
    [][cache.client = "ready" => MutationClearsCache /\ ReadAfterMutationIsFresh]_vars

\* the tasks getTaskById would serve to p: canAccessTask on the loaded document
Readable(p) ==
    {t \in TaskIds : TaskExists(t) /\ canAccessTask(UserDoc(p, "req.user"), TaskDoc(t, TRUE))}

\* C12: listing agrees with individual access: for every principal P the
\* tasks getTasks' role scope selects (no filter parameter given, all pages)
\* are exactly the tasks T for which canAccessTask(P, T) holds.
C12_ListingIsAccess ==
    (resp.op = "getTasks" /\ ~resp.req.filtered) => resp.all = Readable(resp.user)

(***************************************************************************)
(* Claims about credentials of removed users and revoked tokens (SpecAuth). *)
(***************************************************************************)
\* the token is one the server issued to a user that deleteUser has removed,
\* not expired and not revoked, in the state the request finds
StillValidOfDeleted(token) ==
    /\ token \in issued
    /\ ~users[token.userId].exists
    /\ verifyToken(token) # NoPayload
    /\ ~isTokenBlacklisted(token)

\* C13: once deleteUser has removed user U, a request that passes through
\* authenticate with a token issued to U that is unexpired and not revoked is
\* answered 401 USER_NOT_FOUND, attaches no user and changes nothing.
C13_DeletedUserTokenRejected ==
    [][(/\ C5_RequestStep
        /\ resp'.op \in {"getProfile", "logout", "deleteUser"}
        /\ StillValidOfDeleted(resp'.token))
          => /\ resp'.user = 0
             /\ resp'.code = 401
             /\ resp'.err = "USER_NOT_FOUND"
             /\ UNCHANGED <<users, tasks, blacklist, loggedOut>>]_vars

\* a removed user's token, unexpired and not revoked, has been presented and rejected
C13_Witness ==
    /\ resp.op = "getProfile"
    /\ StillValidOfDeleted(resp.token)
    /\ resp.err = "USER_NOT_FOUND"

\* the token is in the revoked set
Revoked(token) == token # NoToken /\ isTokenBlacklisted(token)

\* C14: authenticate, optionalAuthenticate and the WebSocket handshake never
\* attach a user for a token that is in the revoked set.
C14_RevokedNeverAttached ==
    [][(/\ C5_RequestStep
        /\ resp'.op \in {"getProfile", "logout", "deleteUser", "optionalAuthenticate",
                         "socketHandshake"}
        /\ Revoked(resp'.token))
          => resp'.user = 0]_vars

\* C14 without the WebSocket handshake
C14_RevokedNeverAttachedHttp ==
    [][(/\ C5_RequestStep
        /\ resp'.op \in {"getProfile", "logout", "deleteUser", "optionalAuthenticate"}
        /\ Revoked(resp'.token))
          => resp'.user = 0]_vars

(***************************************************************************)
(* Claims about the per-user and per-team statistics (SpecQuery).          *)
(***************************************************************************)
\* who may read the statistics of user u
MayViewUserStats(p, u) ==
    \/ p = u
    \/ users[p].role = "admin"
    \/ /\ users[p].role = "manager"
       /\ Truthy(users[p].team)
       /\ users[p].team = users[u].team

\* C15: getUserStats for an existing user U by principal P succeeds exactly
\* when P is U, or P is an admin, or P is a manager whose team is U's team (a
\* manager with no team: only its own statistics); otherwise it answers 403.
C15_UserStatsAccess ==
    (resp.op = "getUserStats" /\ UserExists(resp.target)) =>
        IF MayViewUserStats(resp.user, resp.target)
        THEN resp.code = 200
        ELSE resp.code = 403 /\ resp.err = "FORBIDDEN"

\* C16: getTeamStats for team N succeeds exactly when the principal is an
\* admin or a manager whose team is N; every other principal gets 403 and no
\* statistics.
C16_TeamStatsAccess ==
    resp.op = "getTeamStats" =>
        IF \/ users[resp.user].role = "admin"
           \/ users[resp.user].role = "manager" /\ users[resp.user].team = resp.req.team
        THEN resp.code = 200
        ELSE resp.code = 403 /\ resp.err = "FORBIDDEN" /\ resp.counts = <<>>

\* a manager has read the statistics of the own team
C16_Witness ==
    /\ resp.op = "getTeamStats"
    /\ users[resp.user].role = "manager"
    /\ users[resp.user].team = resp.req.team
    /\ resp.code = 200

\* a manager has been refused the statistics of another team
C16_WitnessDenied ==
    /\ resp.op = "getTeamStats"
    /\ users[resp.user].role = "manager"
    /\ resp.code = 403

\* the document of task t was written by this step, and the step ran after
\* the due date it leaves in the document
WrittenPastDue(t) ==
    /\ tasks'[t] # tasks[t]
    /\ tasks'[t].exists
    /\ tasks'[t].dueDate # 0
    /\ tasks'[t].dueDate < now

\* C17: a task written by createTask, updateTask, assignTask or
\* bulkAssignTasks at a time later than its due date is stored with status
\* overdue, unless its status is completed.
C17_WritePastDueIsOverdue ==
    [][\A t \in TaskIds :
          (/\ resp'.op \in {"createTask", "updateTask", "assignTask", "bulkAssignTasks"}
           /\ WrittenPastDue(t)
           /\ tasks'[t].status # "completed")
             => tasks'[t].status = "overdue"]_vars

\* C17 for the handlers that write with save()
C17_SavePastDueIsOverdue ==
    [][\A t \in TaskIds :
          (/\ resp'.op \in {"createTask", "updateTask", "assignTask"}
           /\ WrittenPastDue(t)
           /\ tasks'[t].status # "completed")
             => tasks'[t].status = "overdue"]_vars

\* an admin's mutation of an existing task, or creation of one, goes through
AdminMutationSucceeds ==
    (resp.op = "none" /\ users[resp'.user].role = "admin") =>
        /\ resp'.op = "createTask" => resp'.code = 201 /\ tasks'[resp'.task].exists
        /\ (resp'.op \in {"updateTask", "assignTask"} /\ TaskExists(resp'.task))
              => resp'.code = 200
        /\ (resp'.op = "deleteTask" /\ TaskExists(resp'.task))
              => resp'.code = 200 /\ ~tasks'[resp'.task].exists

\* C18: while the cache client is absent or its commands fail, a cache read
\* is a miss and cache writes and invalidations change nothing: getOverview
\* answers 200 with the aggregate of the store, task create, update, delete
\* and assign still succeed, and no request is answered with an error because
\* of the cache.
C18_CacheFailureIsSilent ==
    [][cache.client # "ready" =>
          /\ cache' = cache
          /\ resp'.code # 500
          /\ resp'.op = "getOverview" => resp'.code = 200 /\ FreshOverview(resp')
          /\ AdminMutationSucceeds]_vars

\* an overview was served from the store while the cache, which holds an entry
\* for this user, could not be read
C18_Witness ==
    /\ resp.op = "getOverview"
    /\ resp.code = 200
    /\ cache.client = "failing"
    /\ \E e \in cache.entries : e.key.id[1] = resp.user

\* a task was created while the cache could not be invalidated
C18_WitnessMutation ==
    /\ resp.op = "createTask"
    /\ resp.code = 201
    /\ cache.client # "ready"
    /\ cache.entries # {}

\* p has role user, did not create task t, is not its assignee, and is of
\* another team than the task
Outsider(p, t) ==
    /\ users[p].role = "user"
    /\ tasks[t].createdBy # p
    /\ tasks[t].assignedTo # p
    /\ tasks[t].team # users[p].team

C20_ListUsersAdminOnly ==
    resp.op = "listUsers" =>
        IF users[resp.user].role = "admin" THEN resp.code = 200
        ELSE resp.code = 403 /\ resp.rows = <<>>

\* C20 for user-role principals alone
C20_ListUsersNotForUsers ==
    (resp.op = "listUsers" /\ users[resp.user].role = "user") =>
        resp.code = 403 /\ resp.rows = <<>>

(***************************************************************************)
(* Claims about registration under concurrency (SpecUsers).                *)
(***************************************************************************)
\* no two stored users share an email or a username
UniqueIdentities ==
    \A u, v \in UserIds :
        (u # v /\ users[u].exists /\ users[v].exists)
            => users[u].email # users[v].email /\ users[u].username # users[v].username

\* register request i ends in this step
RegisterEnds(i) ==
    reqs[i].pc # "done" /\ reqs'[i].pc = "done" /\ reqs'[i].op = "register"

\* C21: a register request whose email or username is that of an existing
\* user, one created by a concurrent register request included, is answered
\* 400 USER_EXISTS and creates no user; no state holds two users with the same
\* email or the same username.
C21_DuplicateIsUserExists ==
    [][/\ \A i \in ReqIds :
             (RegisterEnds(i) /\ Taken(reqs'[i].username, reqs'[i].email))
                => /\ reqs'[i].code = 400
                   /\ reqs'[i].err = "USER_EXISTS"
                   /\ users' = users
       /\ UniqueIdentities']_vars

\* the second half of C21 alone
C21_UniqueIdentities == UniqueIdentities

(***************************************************************************)
(* SpecPage: the paging arithmetic the three list handlers share (getTasks,*)
(* searchTasks, getMyAssignedTasks: parseInt, Math.min, skip, limit) on a  *)
(* query that matches call.matching documents.  Init draws the number of   *)
(* matching documents, a request draws the raw page and limit parameters.  *)
(***************************************************************************)
MaxMatching == 101
MaxRequested == 101

RequestedLimits == {<<>>} \cup {<<k>> : k \in (0 - MaxRequested)..MaxRequested}

NoPage ==
    [fn |-> "none", matching |-> 0, limit |-> <<>>, page |-> <<>>,
     code |-> 0, size |-> 0, rows |-> 0]

\* page, limit and skip as the handlers compute them; a negative skip is
\* refused by the store and the catch block answers 500
PageOf(op, n, lm, pg) ==
    LET page == ParseIntOr(pg, DefaultPage)
        limit == PageSize(lm)
        skip == (page - 1) * limit
        docs == [i \in 1..n |-> i]
    IN IF skip < 0
       THEN [NoPage EXCEPT !.fn = op, !.matching = n, !.limit = lm, !.page = pg,
                           !.code = 500]
       ELSE [NoPage EXCEPT !.fn = op, !.matching = n, !.limit = lm, !.page = pg,
                           !.code = 200, !.size = limit,
                           !.rows = Len(SkipLimit(docs, skip, limit))]

InitPage ==
    /\ IdleStore
    /\ \E n \in 0..MaxMatching : call = [NoPage EXCEPT !.matching = n]

getTasksPage(lm, pg) ==
    /\ call.fn = "none"
    /\ call' = PageOf("getTasks", call.matching, lm, pg)
    /\ UNCHANGED <<users, tasks, blacklist, issued, loggedOut, now, reqs, resp, cache>>

searchTasksPage(lm, pg) ==
    /\ call.fn = "none"
    /\ call' = PageOf("searchTasks", call.matching, lm, pg)
    /\ UNCHANGED <<users, tasks, blacklist, issued, loggedOut, now, reqs, resp, cache>>

getMyAssignedTasksPage(lm, pg) ==
    /\ call.fn = "none"
    /\ call' = PageOf("getMyAssignedTasks", call.matching, lm, pg)
    /\ UNCHANGED <<users, tasks, blacklist, issued, loggedOut, now, reqs, resp, cache>>

NextPage ==
    \/ \E lm \in RequestedLimits, pg \in PageInputs : getTasksPage(lm, pg)
    \/ \E lm \in RequestedLimits, pg \in PageInputs : searchTasksPage(lm, pg)
    \/ \E lm \in RequestedLimits, pg \in PageInputs : getMyAssignedTasksPage(lm, pg)

SpecPage == InitPage /\ [][NextPage]_vars

(* Claims about page size (SpecPage). *)

\* the first half of C22: a positive integer limit gives min(requested, 100),
\* an absent or non-numeric limit gives 10
C22_PositiveOrAbsent ==
    (call.fn # "none" /\ call.code = 200)
        => /\ (call.limit # <<>> /\ call.limit[1] > 0)
                 => call.size = Min(call.limit[1], MaxLimit)
           /\ call.limit = <<>> => call.size = DefaultLimit

\* C22: in getTasks, searchTasks and getMyAssignedTasks the page size is
\* min(requested, 100) for a positive integer limit and 10 when the limit is
\* absent or not a number, and for every requested limit no response holds
\* more than 100 tasks.
C22_PageSizeClamped ==
    /\ C22_PositiveOrAbsent
    /\ call.fn # "none" => call.rows <= MaxLimit

(* Claims about the sort field of getTasks (SpecQuery). *)

\* the sortBy values the handler documents (enum of the sortBy parameter)
SortAllowList == {"createdAt", "dueDate", "priority"}

\* the second half of C23: with the default sort parameters the store query is
\* sorted by createdAt, newest first
C23_DefaultSort ==
    (resp.op = "getTasks" /\ resp.req.sortBy = "createdAt" /\ resp.req.order = "desc")
        => resp.sort = <<"createdAt", -1>>

\* C23: the sort field getTasks applies to the store query is always one of
\* createdAt, dueDate, priority (a sortBy outside this set is never the sort
\* key), and with no sort parameters the order is createdAt descending.
C23_SortFieldAllowListed ==
    /\ resp.op = "getTasks" => resp.sort[1] \in SortAllowList
    /\ C23_DefaultSort

(* Claims about the creator of a task (SpecTasks). *)
AssignOps == {"assignTask", "bulkAssignTasks"}

\* createTask stores the requesting principal as creator; updateTask, assignTask
\* and bulkAssignTasks keep every stored task and its creator
CreatorKept ==
    /\ (resp'.op = "createTask" /\ resp'.code = 201)
          => tasks'[resp'.task].createdBy = resp'.user
    /\ resp'.op \in AssignOps \cup {"updateTask"}
          => \A t \in TaskIds :
                tasks[t].exists
                   => tasks'[t].exists /\ tasks'[t].createdBy = tasks[t].createdBy

\* a task with its assignee, respectively its assignee and status, blanked
SaveAssignee(task) == [task EXCEPT !.assignedTo = 0]
SaveAssigneeAndStatus(task) == [task EXCEPT !.assignedTo = 0, !.status = ""]

AssigneeSet ==
    {t \in TaskIds :
        /\ tasks'[t].exists
        /\ ~tasks[t].exists \/ tasks'[t].assignedTo # tasks[t].assignedTo}

\* C25: no request of a principal with role user sets a task's assignee to
\* anybody but that principal: its createTask ends with a task assigned to itself
\* or with 403 and no task, updateTask never changes an assignee, its assignTask
\* and bulkAssignTasks end with 403 FORBIDDEN and change nothing; the requests of
\* admins and managers are never refused with 403.
C25_UserNeverAssignsOthers ==
    [][LET p == resp'.user
       IN /\ users[p].role = "user"
                => /\ \A t \in AssigneeSet : tasks'[t].assignedTo = p
                   /\ resp'.op = "createTask"
                         => \/ resp'.code = 201
                            \/ resp'.code = 403 /\ resp'.err = "FORBIDDEN" /\ tasks' = tasks
                   /\ resp'.op \in AssignOps
                         => resp'.code = 403 /\ resp'.err = "FORBIDDEN" /\ tasks' = tasks
          /\ resp'.op = "updateTask" => AssigneeSet = {}
          /\ (users[p].role \in {"admin", "manager"}
                /\ resp'.op \in AssignOps \cup {"createTask"})
                => resp'.code # 403]_vars

\* a user's createTask has been refused and the store holds no task
C25_Witness ==
    /\ resp.op = "createTask" /\ resp.code = 403
    /\ users[resp.user].role = "user"
    /\ \A t \in TaskIds : ~tasks[t].exists

\* a manager has assigned a task to somebody else
C25_WitnessManager ==
    /\ resp.op = "assignTask" /\ resp.code = 200
    /\ users[resp.user].role = "manager"
    /\ tasks[resp.task].assignedTo \notin {0, resp.user}

(* Claims about the order of the gates of authenticate (SpecAuth). *)

\* the requests that pass through authenticate before their handler
Authenticated == {"getProfile", "logout", "deleteUser"}

AuthCodes == {"NO_TOKEN", "TOKEN_BLACKLISTED", "INVALID_TOKEN", "USER_NOT_FOUND"}

\* the code of the first gate that the token of a request fails in the state the
\* request arrives in: presence, revocation, signature and expiry, existence
FirstFailingGate(token) ==
    IF token = NoToken THEN "NO_TOKEN"
    ELSE IF \E e \in blacklist : e.token = token THEN "TOKEN_BLACKLISTED"
    ELSE IF token.sig # "secret" \/ now >= token.exp THEN "INVALID_TOKEN"
    ELSE IF ~users[token.userId].exists THEN "USER_NOT_FOUND"
    ELSE ""

Arrives(i) == reqs[i].pc = "idle" /\ reqs'[i].pc # "idle"

\* C28: the role and team a request is authorized under are those stored for its
\* principal when authenticate runs, never the role claim of its token: once an
\* admin has changed the role of U, a request of U that carries a token issued
\* before the change is admitted or refused by the role gate under the new role.
C28_StoredRoleAuthorizes ==
    [][\A i \in ReqIds :
          (Arrives(i) /\ reqs'[i].principal # 0)
             => LET p == reqs'[i].principal
                IN /\ reqs'[i].prole = users[p].role
                   /\ reqs'[i].pteam = users[p].team
                   /\ users[p].role # "admin"
                         => /\ reqs'[i].pc = "done"
                            /\ reqs'[i].code = 403 /\ reqs'[i].err = "FORBIDDEN"
                   /\ (users[p].role = "admin" /\ reqs'[i].op = "deleteUser")
                         => reqs'[i].code # 403]_vars

\* the tokens of user u all carry a role that is no longer the stored one
OnlyOldTokens(u) == \A t \in issued : t.userId = u => t.role # users[u].role

\* a user made admin after its token was issued has passed the admin gate with it
C28_Witness ==
    \E i \in ReqIds :
        /\ reqs[i].op \in {"updateUserRole", "deleteUser"}
        /\ reqs[i].principal # 0
        /\ users[reqs[i].principal].exists
        /\ users[reqs[i].principal].role = "admin"
        /\ OnlyOldTokens(reqs[i].principal)
        /\ reqs[i].prole = "admin"
        /\ ~(reqs[i].code = 403 /\ reqs[i].err = "FORBIDDEN")

\* an admin made user after its token was issued is refused with it
C28_WitnessDemoted ==
    \E i \in ReqIds :
        /\ reqs[i].principal # 0
        /\ users[reqs[i].principal].exists
        /\ users[reqs[i].principal].role = "user"
        /\ OnlyOldTokens(reqs[i].principal)
        /\ reqs[i].prole = "user"
        /\ reqs[i].code = 403

(* Claims about the admins of the system (SpecUsers). *)
Admins == {u \in UserIds : users[u].exists /\ users[u].role = "admin"}

\* C29: the system starts with an admin, and under every interleaving of
\* updateUserRole, deleteUser and register requests every reachable state has at
\* least one user with role admin.
C29_AlwaysAnAdmin == Admins # {}

(***************************************************************************)
(* SpecOverview: getOverview and updateTask as they run concurrently.  A   *)
(* handler gives up control at every await: getOverview at the cache read, *)
(* at the four countDocuments queries of its Promise.all, which the store  *)
(* serves one by one in any order, and at the cache write; updateTask at   *)
(* task.save() and at invalidateTaskCaches().  reqs.ov is the overview     *)
(* request in flight, reqs.mu the update.                                  *)
(***************************************************************************)
CountQueries == {"totalTasks", "completed", "pending", "overdue"}

NoCounts == [totalTasks |-> 0, completed |-> 0, pending |-> 0, overdue |-> 0]

NoOverview ==
    [pc |-> "idle", principal |-> 0, waiting |-> {}, counts |-> NoCounts,
     cached |-> FALSE, code |-> 0]

NoUpdate == [pc |-> "idle", principal |-> 0, task |-> 0, code |-> 0]

OverviewKey(p) ==
    getAnalyticsKey("overview", <<OidToString(UserDoc(p, "req.user")._id).v, users[p].role>>)

\* getOverview up to `await Promise.all([...])`: the cached entry, or the four
\* count queries sent
overviewGet(p) ==
    LET cachedData == get(OverviewKey(p))
        r == [NoOverview EXCEPT !.principal = p]
    IN /\ reqs.ov.pc = "idle"
       /\ users[p].exists
       /\ reqs' = [reqs EXCEPT !.ov =
                     IF cachedData.threw THEN [r EXCEPT !.pc = "done", !.code = 500]
                     ELSE IF cachedData.hit
                     THEN [r EXCEPT !.pc = "done", !.code = 200, !.cached = TRUE,
                                    !.counts = cachedData.data]
                     ELSE [r EXCEPT !.pc = "count", !.waiting = CountQueries]]
       /\ UNCHANGED <<users, tasks, blacklist, issued, loggedOut, now, resp, call, cache>>

\* the store answers one of the count queries
overviewCount(k) ==
    LET r == reqs.ov
        user == UserDoc(r.principal, "req.user")
    IN /\ r.pc = "count"
       /\ k \in r.waiting
       /\ reqs' = [reqs EXCEPT !.ov.waiting = @ \ {k},
                               !.ov.counts[k] = OverviewCounts(user)[k]]
       /\ UNCHANGED <<users, tasks, blacklist, issued, loggedOut, now, resp, call, cache>>

\* Promise.all has resolved: the result is cached and sent
overviewSet ==
    LET r == reqs.ov
    IN /\ r.pc = "count"
       /\ r.waiting = {}
       /\ cache' = set(OverviewKey(r.principal), r.counts, AnalyticsTtl)
       /\ reqs' = [reqs EXCEPT !.ov.pc = "done", !.ov.code = 200]
       /\ UNCHANGED <<users, tasks, blacklist, issued, loggedOut, now, resp, call>>

\* updateTask up to `await cacheService.invalidateTaskCaches()`
updateTaskSave(p, t, body) ==
    LET user == UserDoc(p, "req.user")
        r == [NoUpdate EXCEPT !.principal = p, !.task = t]
    IN /\ reqs.mu.pc = "idle"
       /\ users[p].exists
       /\ IF ~TaskExists(t) \/ ~canAccessTask(user, TaskDoc(t, FALSE))
          THEN /\ tasks' = tasks
               /\ reqs' = [reqs EXCEPT !.mu = [r EXCEPT !.pc = "done", !.code = 404]]
          ELSE /\ tasks' = [tasks EXCEPT ![t] = PreSave(UpdatedTask(tasks[t], body))]
               /\ reqs' = [reqs EXCEPT !.mu = [r EXCEPT !.pc = "invalidate"]]
       /\ UNCHANGED <<users, blacklist, issued, loggedOut, now, resp, call, cache>>

\* invalidateTaskCaches() resolves and updateTask answers
updateTaskInvalidate ==
    /\ reqs.mu.pc = "invalidate"
    /\ cache' = invalidateTaskCaches
    /\ reqs' = [reqs EXCEPT !.mu.pc = "done", !.mu.code = 200]
    /\ UNCHANGED <<users, tasks, blacklist, issued, loggedOut, now, resp, call>>

\* the seeded users, a store of seeded tasks, and a cache that is empty or
\* holds the overview every user has read before
InitOverview ==
    /\ now = 1
    /\ users = SeedUsers
    /\ tasks \in {f \in [TaskIds -> UNION {CachedTasks(t) : t \in TaskIds}] :
                     \A t \in TaskIds : f[t] \in CachedTasks(t)}
    /\ blacklist = {}
    /\ issued = {}
    /\ loggedOut = {}
    /\ reqs = [ov |-> NoOverview, mu |-> NoUpdate]
    /\ resp = NoResp
    /\ call = NoCall
    /\ \E readers \in {{}, UserIds} :
          cache = [NoCache EXCEPT !.entries = {CachedOverview(p) : p \in readers}]

NextOverview ==
    \/ \E p \in UserIds : overviewGet(p)
    \/ \E k \in CountQueries : overviewCount(k)
    \/ overviewSet
    \/ \E p \in UserIds, t \in TaskIds, body \in UpdateBodies : updateTaskSave(p, t, body)
    \/ updateTaskInvalidate

SpecOverview == InitOverview /\ [][NextOverview]_vars

(* Claims about getOverview under concurrency (SpecOverview). *)

\* the overview entries the cache holds that differ from what the store gives
StaleOverviews ==
    {e \in Live(cache) :
        \E p \in UserIds : e.key = OverviewKey(p) /\ e.data # CachedOverview(p).data}

\* C27: however the steps of a getOverview that misses the cache (count queries,
\* cache write) interleave with those of a concurrent mutation (store write,
\* invalidation), once both have completed the cache holds no overview entry
\* computed from the data before the mutation.
C27_NoStaleOverviewAfterBoth ==
    (reqs.ov.pc = "done" /\ ~reqs.ov.cached /\ reqs.mu.pc = "done" /\ reqs.mu.code = 200)
        => StaleOverviews = {}

\* C30: in every overview response, recomputed or served from the cache,
\* totalTasks = completed + pending + overdue, also when a mutation runs
\* between the four count queries.
C30_TotalIsSum ==
    (reqs.ov.pc = "done" /\ reqs.ov.code = 200)
        => reqs.ov.counts.totalTasks
              = reqs.ov.counts.completed + reqs.ov.counts.pending + reqs.ov.counts.overdue

====
